---- MODULE Spec2Model ----
(***************************************************************************)
(* ADGM corporate agent: the clause-checking pipeline (checker.py), the    *)
(* document classifier and checklist engine (utils.py) and the Analyze     *)
(* handler (app.py).                                                       *)
(*                                                                         *)
(* A Python str is a sequence of one-character strings, so that lower(),   *)
(* strip(), substring tests, the regular expressions and json.loads are    *)
(* computed on the characters, as the code computes them.                  *)
(***************************************************************************)
EXTENDS Integers, Sequences, FiniteSets, TLC

VARIABLES
  uploaded_types,  \* app.py:36, the set of detected document-type labels
  s_chunks,        \* the pieces of a text sample handed to detect_doc_type_from_text
  t_chunks,        \* the pieces of the text added to the sample
  clause_call,     \* the arguments check_clause is called with
  resp,            \* the generative service's response: prose, a JSON array, a suffix
  ret,             \* the last call of a function: its name, arguments and return value
  GEN_KEY,         \* checker.py:10, whether the generative service's key is set
  vectordb,        \* app.py:22-26, "loaded" or "None"
  uploaded_files,  \* app.py:17, the batch of uploaded documents
  file_pos,        \* app.py:39, the position of the per-document loop
  reports,         \* app.py:35
  annotated_outputs,  \* app.py:37
  final_report,    \* app.py:83
  checklist_msg,   \* app.py:96
  run_pc           \* where the Analyze handler is: "idle", "refused", "loop", "done", "aborted"

vars == <<uploaded_types, s_chunks, t_chunks, clause_call, resp, ret, GEN_KEY, vectordb,
          uploaded_files, file_pos, reports, annotated_outputs, final_report,
          checklist_msg, run_pc>>

\* the samples and the response that the functions are called on
input_vars == <<s_chunks, t_chunks, clause_call, resp>>

\* the configuration read at start-up
env_vars == <<GEN_KEY, vectordb>>

\* the Analyze handler's run
app_vars == <<uploaded_files, file_pos, reports, annotated_outputs, final_report,
              checklist_msg, run_pc>>

----------------------------------------------------------------------------
(* Python str primitives *)

UpperCase == <<"A","B","C","D","E","F","G","H","I","J","K","L","M",
               "N","O","P","Q","R","S","T","U","V","W","X","Y","Z">>

LowerCase == <<"a","b","c","d","e","f","g","h","i","j","k","l","m",
               "n","o","p","q","r","s","t","u","v","w","x","y","z">>

Digits == {"0","1","2","3","4","5","6","7","8","9"}

\* str.lower() on one character
lower_char(c) ==
  LET to_lower == [i \in 1..26 |-> LowerCase[i]]
      at == {i \in 1..26 : UpperCase[i] = c}
  IN  IF at = {} THEN c ELSE to_lower[CHOOSE i \in at : TRUE]

\* str.lower() (SubSeq makes the characters a tuple, computed once)
lower(s) == SubSeq([i \in 1..Len(s) |-> lower_char(s[i])], 1, Len(s))

\* the characters str.strip(), JSON and the regex class \s treat as whitespace
Whitespace == {" ", "\t", "\n", "\r"}

\* the regex class \w
IsWordChar(c) ==
  \/ \E i \in 1..26 : c = UpperCase[i] \/ c = LowerCase[i]
  \/ c \in Digits
  \/ c = "_"

\* s[i:i+len(sub)] == sub, at the 1-based position i
MatchAt(s, sub, i) ==
  /\ i >= 1
  /\ i + Len(sub) - 1 <= Len(s)
  /\ \A j \in 1..Len(sub) : s[i + j - 1] = sub[j]

\* Python's `sub in s`
Contains(s, sub) == \E i \in 1..(Len(s) - Len(sub) + 1) : MatchAt(s, sub, i)

\* str.strip(): from the first character that is no whitespace to the last
strip(s) ==
  LET lo == CHOOSE i \in 1..(Len(s) + 1) :
              /\ \A n \in 1..(i - 1) : s[n] \in Whitespace
              /\ (i = Len(s) + 1 \/ s[i] \notin Whitespace)
      hi == CHOOSE i \in 0..Len(s) :
              /\ \A n \in (i + 1)..Len(s) : s[n] \in Whitespace
              /\ (i = 0 \/ s[i] \notin Whitespace)
  IN  SubSeq(s, lo, hi)

\* the elements of a list, as a set
Range(seq) == {seq[i] : i \in 1..Len(seq)}

\* "".join(chunks)
RECURSIVE Join(_)
Join(chunks) == IF chunks = << >> THEN << >> ELSE Head(chunks) \o Join(Tail(chunks))

----------------------------------------------------------------------------
(* utils.py *)

CHECKLIST ==
  <<
    [process |-> "Company Incorporation",
     required |-> <<"Articles of Association",
                   "Memorandum of Association",
                   "Board Resolution",
                   "Shareholder Resolution",
                   "Incorporation Application Form",
                   "UBO Declaration Form",
                   "Register of Members and Directors",
                   "Change of Registered Address Notice">>],
    [process |-> "Employment & HR",
     required |-> <<"Standard Employment Contract",
                   "Employee Handbook",
                   "Offer Letter">>],
    [process |-> "Licensing",
     required |-> <<"Licensing Application Form",
                   "Supporting Documents for License">>],
    [process |-> "Compliance & Risk",
     required |-> <<"Data Protection Policy",
                   "Compliance Policy",
                   "Risk Assessment">>],
    [process |-> "Commercial Agreements",
     required |-> <<"NDA",
                   "Consultancy Agreement",
                   "Service Agreement",
                   "Sale/Purchase Agreement">>]
  >>

DOC_TYPE_KEYWORDS ==
  <<
    [doc_name |-> "Articles of Association",
     kws |-> <<
       (* articles of association *)
       <<"a","r","t","i","c","l","e","s"," ","o","f"," ","a","s","s","o","c","i","a","t","i",
         "o","n">>,
       (* aoa *)
       <<"a","o","a">>,
       (* article of association *)
       <<"a","r","t","i","c","l","e"," ","o","f"," ","a","s","s","o","c","i","a","t","i","o",
         "n">>>>],
    [doc_name |-> "Memorandum of Association",
     kws |-> <<
       (* memorandum of association *)
       <<"m","e","m","o","r","a","n","d","u","m"," ","o","f"," ","a","s","s","o","c","i","a",
         "t","i","o","n">>,
       (* moa *)
       <<"m","o","a">>,
       (* memorandum *)
       <<"m","e","m","o","r","a","n","d","u","m">>>>],
    [doc_name |-> "Board Resolution",
     kws |-> <<
       (* board resolution *)
       <<"b","o","a","r","d"," ","r","e","s","o","l","u","t","i","o","n">>,
       (* resolution of the board *)
       <<"r","e","s","o","l","u","t","i","o","n"," ","o","f"," ","t","h","e"," ","b","o","a",
         "r","d">>>>],
    [doc_name |-> "Shareholder Resolution",
     kws |-> <<
       (* shareholder resolution *)
       <<"s","h","a","r","e","h","o","l","d","e","r"," ","r","e","s","o","l","u","t","i","o",
         "n">>,
       (* resolution of the shareholders *)
       <<"r","e","s","o","l","u","t","i","o","n"," ","o","f"," ","t","h","e"," ","s","h","a",
         "r","e","h","o","l","d","e","r","s">>,
       (* shareholders' resolution *)
       <<"s","h","a","r","e","h","o","l","d","e","r","s","'"," ","r","e","s","o","l","u","t",
         "i","o","n">>>>],
    [doc_name |-> "Incorporation Application Form",
     kws |-> <<
       (* incorporation application *)
       <<"i","n","c","o","r","p","o","r","a","t","i","o","n"," ","a","p","p","l","i","c","a",
         "t","i","o","n">>,
       (* application for incorporation *)
       <<"a","p","p","l","i","c","a","t","i","o","n"," ","f","o","r"," ","i","n","c","o","r",
         "p","o","r","a","t","i","o","n">>,
       (* form ra *)
       <<"f","o","r","m"," ","r","a">>>>],
    [doc_name |-> "UBO Declaration Form",
     kws |-> <<
       (* ubo declaration *)
       <<"u","b","o"," ","d","e","c","l","a","r","a","t","i","o","n">>,
       (* ultimate beneficial owner *)
       <<"u","l","t","i","m","a","t","e"," ","b","e","n","e","f","i","c","i","a","l"," ","o",
         "w","n","e","r">>,
       (* ubo form *)
       <<"u","b","o"," ","f","o","r","m">>>>],
    [doc_name |-> "Register of Members and Directors",
     kws |-> <<
       (* register of members *)
       <<"r","e","g","i","s","t","e","r"," ","o","f"," ","m","e","m","b","e","r","s">>,
       (* register of directors *)
       <<"r","e","g","i","s","t","e","r"," ","o","f"," ","d","i","r","e","c","t","o","r","s">>,
       (* register of members and directors *)
       <<"r","e","g","i","s","t","e","r"," ","o","f"," ","m","e","m","b","e","r","s"," ","a",
         "n","d"," ","d","i","r","e","c","t","o","r","s">>>>],
    [doc_name |-> "Change of Registered Address Notice",
     kws |-> <<
       (* change of registered address *)
       <<"c","h","a","n","g","e"," ","o","f"," ","r","e","g","i","s","t","e","r","e","d"," ",
         "a","d","d","r","e","s","s">>,
       (* registered address notice *)
       <<"r","e","g","i","s","t","e","r","e","d"," ","a","d","d","r","e","s","s"," ","n","o",
         "t","i","c","e">>>>],
    [doc_name |-> "Standard Employment Contract",
     kws |-> <<
       (* employment contract *)
       <<"e","m","p","l","o","y","m","e","n","t"," ","c","o","n","t","r","a","c","t">>,
       (* standard employment contract *)
       <<"s","t","a","n","d","a","r","d"," ","e","m","p","l","o","y","m","e","n","t"," ","c",
         "o","n","t","r","a","c","t">>,
       (* employee contract *)
       <<"e","m","p","l","o","y","e","e"," ","c","o","n","t","r","a","c","t">>>>],
    [doc_name |-> "Offer Letter",
     kws |-> <<
       (* offer letter *)
       <<"o","f","f","e","r"," ","l","e","t","t","e","r">>,
       (* employment offer *)
       <<"e","m","p","l","o","y","m","e","n","t"," ","o","f","f","e","r">>>>],
    [doc_name |-> "NDA",
     kws |-> <<
       (* non-disclosure agreement *)
       <<"n","o","n","-","d","i","s","c","l","o","s","u","r","e"," ","a","g","r","e","e","m",
         "e","n","t">>,
       (* nda *)
       <<"n","d","a">>,
       (* confidentiality agreement *)
       <<"c","o","n","f","i","d","e","n","t","i","a","l","i","t","y"," ","a","g","r","e","e",
         "m","e","n","t">>>>],
    [doc_name |-> "Consultancy Agreement",
     kws |-> <<
       (* consultancy agreement *)
       <<"c","o","n","s","u","l","t","a","n","c","y"," ","a","g","r","e","e","m","e","n","t">>,
       (* consultant agreement *)
       <<"c","o","n","s","u","l","t","a","n","t"," ","a","g","r","e","e","m","e","n","t">>>>],
    [doc_name |-> "Service Agreement",
     kws |-> <<
       (* service agreement *)
       <<"s","e","r","v","i","c","e"," ","a","g","r","e","e","m","e","n","t">>,
       (* services agreement *)
       <<"s","e","r","v","i","c","e","s"," ","a","g","r","e","e","m","e","n","t">>>>],
    [doc_name |-> "Data Protection Policy",
     kws |-> <<
       (* data protection policy *)
       <<"d","a","t","a"," ","p","r","o","t","e","c","t","i","o","n"," ","p","o","l","i","c",
         "y">>,
       (* dpr *)
       <<"d","p","r">>,
       (* data protection *)
       <<"d","a","t","a"," ","p","r","o","t","e","c","t","i","o","n">>>>],
    [doc_name |-> "Compliance Policy",
     kws |-> <<
       (* compliance policy *)
       <<"c","o","m","p","l","i","a","n","c","e"," ","p","o","l","i","c","y">>,
       (* compliance manual *)
       <<"c","o","m","p","l","i","a","n","c","e"," ","m","a","n","u","a","l">>>>],
    [doc_name |-> "Licensing Application Form",
     kws |-> <<
       (* licensing application *)
       <<"l","i","c","e","n","s","i","n","g"," ","a","p","p","l","i","c","a","t","i","o","n">>,
       (* license application *)
       <<"l","i","c","e","n","s","e"," ","a","p","p","l","i","c","a","t","i","o","n">>,
       (* application for license *)
       <<"a","p","p","l","i","c","a","t","i","o","n"," ","f","o","r"," ","l","i","c","e","n",
         "s","e">>>>]
  >>

\* dict.get(process, []) on CHECKLIST
ChecklistGet(process) ==
  IF \E i \in 1..Len(CHECKLIST) : CHECKLIST[i].process = process
  THEN CHECKLIST[CHOOSE i \in 1..Len(CHECKLIST) : CHECKLIST[i].process = process].required
  ELSE << >>

\* every label a required list names
ChecklistLabels == UNION {Range(CHECKLIST[i].required) : i \in 1..Len(CHECKLIST)}

\* the labels of the keyword catalog
KeywordLabels == {DOC_TYPE_KEYWORDS[i].doc_name : i \in 1..Len(DOC_TYPE_KEYWORDS)}

\* detect_doc_type_from_text returning at the first catalog entry that matches
detect_doc_type_first_match_only(text) ==
  LET t == lower(text)
      hits == {n \in 1..Len(DOC_TYPE_KEYWORDS) :
                 \E k \in 1..Len(DOC_TYPE_KEYWORDS[n].kws) :
                    Contains(t, DOC_TYPE_KEYWORDS[n].kws[k])}
  IN  IF hits = {} THEN {}
      ELSE {DOC_TYPE_KEYWORDS[CHOOSE n \in hits : \A m \in hits : n <= m].doc_name}

\* the set of matched document types (the code returns list(set): no order is kept)
detect_doc_type_from_text(text) ==
  LET t == lower(text)
  IN  {DOC_TYPE_KEYWORDS[i].doc_name : i \in
         {n \in 1..Len(DOC_TYPE_KEYWORDS) :
            \E k \in 1..Len(DOC_TYPE_KEYWORDS[n].kws) :
               Contains(t, DOC_TYPE_KEYWORDS[n].kws[k])}}

incorporation_indicators ==
  {"Articles of Association", "Memorandum of Association",
   "Incorporation Application Form", "Register of Members and Directors"}

\* detect_process_from_uploaded_types with the Licensing test moved before the
\* Employment & HR test
detect_process_licensing_first(uploaded) ==
  IF uploaded \cap incorporation_indicators # {} THEN "Company Incorporation"
  ELSE IF uploaded \cap Range(ChecklistGet("Licensing")) # {} THEN "Licensing"
  ELSE IF uploaded \cap Range(ChecklistGet("Employment & HR")) # {} THEN "Employment & HR"
  ELSE IF uploaded \cap Range(ChecklistGet("Compliance & Risk")) # {}
       THEN "Compliance & Risk"
  ELSE IF uploaded \cap Range(ChecklistGet("Commercial Agreements")) # {}
       THEN "Commercial Agreements"
  ELSE "None"

\* the process name, or "None"
detect_process_from_uploaded_types(uploaded) ==
  IF uploaded \cap incorporation_indicators # {} THEN "Company Incorporation"
  ELSE IF uploaded \cap Range(ChecklistGet("Employment & HR")) # {} THEN "Employment & HR"
  ELSE IF uploaded \cap Range(ChecklistGet("Licensing")) # {} THEN "Licensing"
  ELSE IF uploaded \cap Range(ChecklistGet("Compliance & Risk")) # {}
       THEN "Compliance & Risk"
  ELSE IF uploaded \cap Range(ChecklistGet("Commercial Agreements")) # {}
       THEN "Commercial Agreements"
  ELSE "None"

\* checklist_comparison_for_process with the operands of the set difference swapped
checklist_comparison_swapped(process, uploaded) ==
  LET required == ChecklistGet(process)
  IN  [required |-> required,
       missing |-> uploaded \ Range(required),
       uploaded_count |-> Cardinality(uploaded),
       required_count |-> Len(required)]

\* (required_list, missing_list, uploaded_count, required_count); missing is
\* list(set - set), kept as the set it is made from
checklist_comparison_for_process(process, uploaded) ==
  LET required == ChecklistGet(process)
  IN  [required |-> required,
       missing |-> Range(required) \ uploaded,
       uploaded_count |-> Cardinality(uploaded),
       required_count |-> Len(required)]

\* the message, as the values its f-strings interpolate
build_user_checklist_message(process, uploaded) ==
  LET c == checklist_comparison_for_process(process, uploaded)
      intent == IF process = "Company Incorporation"
                THEN "incorporate a company in ADGM"
                ELSE "perform the process: " \o process
  IN  IF c.missing # {}
      THEN [kind |-> "missing", intent |-> intent,
            uploaded_count |-> c.uploaded_count,
            required_count |-> c.required_count,
            missing_names |-> c.missing]
      ELSE [kind |-> "complete", intent |-> intent,
            required_count |-> c.required_count]

----------------------------------------------------------------------------
(* Python values, as json.loads makes them.  A value is [k, v] with v a    *)
(* sequence: the characters of a str, the text of a number or of a bool,   *)
(* the items of a list, the (key, value) pairs of a dict in insertion      *)
(* order.                                                                  *)

PyNone == [k |-> "none", v |-> << >>]

PyStr(chars) == [k |-> "str", v |-> chars]

PyNum(chars) == [k |-> "num", v |-> chars]

PyBool(chars) == [k |-> "bool", v |-> chars]

PyList(items) == [k |-> "list", v |-> items]

PyDict(pairs) == [k |-> "dict", v |-> pairs]

\* `key in d`
DictHas(d, key) == \E i \in 1..Len(d.v) : d.v[i][1] = key

\* d[key], for a key of d
DictAt(d, key) == d.v[CHOOSE i \in 1..Len(d.v) : d.v[i][1] = key][2]

\* d.get(key): None when the key is absent
DictGet(d, key) == IF DictHas(d, key) THEN DictAt(d, key) ELSE PyNone

\* the pairs of d after d[key] = val: a present key keeps its place
PairsSet(pairs, key, val) ==
  IF \E i \in 1..Len(pairs) : pairs[i][1] = key
  THEN [i \in 1..Len(pairs) |-> IF pairs[i][1] = key THEN <<key, val>> ELSE pairs[i]]
  ELSE Append(pairs, <<key, val>>)

\* d.setdefault(key, val), as the dict it leaves
DictSetDefault(d, key, val) ==
  IF DictHas(d, key) THEN d ELSE PyDict(Append(d.v, <<key, val>>))

----------------------------------------------------------------------------
(* json.loads, on texts without backslash escapes *)

JsonFail == [ok |-> FALSE, val |-> PyNone, end |-> 0]

JsonOk(val, end) == [ok |-> TRUE, val |-> val, end |-> end]

\* json.decoder.WHITESPACE.match(s, i).end(): the first position at or after i
\* that holds no whitespace (Len(s) + 1 when there is none)
SkipWhitespace(s, i) ==
  CHOOSE j \in i..(Len(s) + 1) :
    /\ \A n \in i..(j - 1) : s[n] \in Whitespace
    /\ (j = Len(s) + 1 \/ s[j] \notin Whitespace)

\* s[i:i+len(word)] == word
StartsWithAt(s, word, i) == MatchAt(s, word, i)

\* the end of the longest run of digits from position i (i itself when none)
DigitsEnd(s, i) ==
  CHOOSE j \in i..(Len(s) + 1) :
    /\ \A n \in i..(j - 1) : s[n] \in Digits
    /\ (j = Len(s) + 1 \/ s[j] \notin Digits)

\* json.scanner.NUMBER_RE, (-?(?:0|[1-9]\d*))(\.\d+)?([eE][-+]?\d+)?, matched at
\* position i: the position after the match, or 0 when it does not match
NumberEnd(s, i) ==
  LET IntEnd(a) == IF a > Len(s) \/ s[a] \notin Digits THEN 0
                   ELSE IF s[a] = "0" THEN a + 1
                   ELSE DigitsEnd(s, a)
      FracEnd(e) == IF e # 0 /\ e <= Len(s) /\ s[e] = "."
                    THEN (LET After(f) == IF f > e + 1 THEN f ELSE e
                          IN  After(DigitsEnd(s, e + 1)))
                    ELSE e
      ExpDigits(f, from) == LET After(x) == IF x > from THEN x ELSE f
                            IN  After(DigitsEnd(s, from))
      ExpEnd(f) == IF f # 0 /\ f <= Len(s) /\ s[f] \in {"e", "E"}
                   THEN ExpDigits(f, IF f + 1 <= Len(s) /\ s[f + 1] \in {"-", "+"}
                                     THEN f + 2 ELSE f + 1)
                   ELSE f
  IN  ExpEnd(FracEnd(IntEnd(IF i <= Len(s) /\ s[i] = "-" THEN i + 1 ELSE i)))

\* json.decoder.scanstring after the opening quote at i - 1 (strict: a control
\* character inside the string is an error)
scanstring(s, i) ==
  IF \A j \in i..Len(s) : s[j] # "\""
  THEN JsonFail
  ELSE LET Closed(close) ==
             IF \E n \in i..(close - 1) : s[n] \in {"\t", "\n", "\r"}
             THEN JsonFail
             ELSE JsonOk(PyStr(SubSeq(s, i, close - 1)), close + 1)
       IN  Closed(CHOOSE j \in i..Len(s) :
                    s[j] = "\"" /\ \A n \in i..(j - 1) : s[n] # "\"")

RECURSIVE scan_once(_, _)
RECURSIVE JSONArrayItems(_, _, _)
RECURSIVE JSONObjectPairs(_, _, _)

\* json.decoder.JSONArray after the "[" at i - 1
JSONArray(s, i) ==
  LET First(j) == IF j <= Len(s) /\ s[j] = "]" THEN JsonOk(PyList(<< >>), j + 1)
                  ELSE JSONArrayItems(s, j, << >>)
  IN  First(SkipWhitespace(s, i))

\* the loop of JSONArray: a value, then "]" or "," and the next value
JSONArrayItems(s, i, items) ==
  LET AfterValue(j, now) ==
        IF j > Len(s) THEN JsonFail
        ELSE IF s[j] = "]" THEN JsonOk(PyList(now), j + 1)
        ELSE IF s[j] = "," THEN JSONArrayItems(s, SkipWhitespace(s, j + 1), now)
        ELSE JsonFail
      Value(r) == IF ~r.ok THEN JsonFail
                  ELSE AfterValue(SkipWhitespace(s, r.end), Append(items, r.val))
  IN  Value(scan_once(s, i))

\* json.decoder.JSONObject after the "{" at i - 1
JSONObject(s, i) ==
  LET First(j) == IF j <= Len(s) /\ s[j] = "}" THEN JsonOk(PyDict(<< >>), j + 1)
                  ELSE JSONObjectPairs(s, j, << >>)
  IN  First(SkipWhitespace(s, i))

\* the loop of JSONObject: a quoted key, ":", a value, then "}" or "," and the
\* next key
JSONObjectPairs(s, i, pairs) ==
  LET AfterValue(j, now) ==
        IF j > Len(s) THEN JsonFail
        ELSE IF s[j] = "}" THEN JsonOk(PyDict(now), j + 1)
        ELSE IF s[j] = "," THEN JSONObjectPairs(s, SkipWhitespace(s, j + 1), now)
        ELSE JsonFail
      Value(key, r) ==
        IF ~r.ok THEN JsonFail
        ELSE AfterValue(SkipWhitespace(s, r.end), PairsSet(pairs, key.val.v, r.val))
      Colon(key, c) ==
        IF c > Len(s) \/ s[c] # ":" THEN JsonFail
        ELSE Value(key, scan_once(s, SkipWhitespace(s, c + 1)))
      Key(key) == IF ~key.ok THEN JsonFail ELSE Colon(key, SkipWhitespace(s, key.end))
  IN  IF i > Len(s) \/ s[i] # "\"" THEN JsonFail ELSE Key(scanstring(s, i + 1))

\* json.scanner.py_make_scanner._scan_once at position i
scan_once(s, i) ==
  LET Number(e) ==
        IF e # 0 THEN JsonOk(PyNum(SubSeq(s, i, e - 1)), e)
        ELSE IF StartsWithAt(s, <<"N","a","N">>, i) THEN JsonOk(PyNum(<<"N","a","N">>), i + 3)
        ELSE IF StartsWithAt(s, <<"I","n","f","i","n","i","t","y">>, i)
             THEN JsonOk(PyNum(<<"I","n","f","i","n","i","t","y">>), i + 8)
        ELSE IF StartsWithAt(s, <<"-","I","n","f","i","n","i","t","y">>, i)
             THEN JsonOk(PyNum(<<"-","I","n","f","i","n","i","t","y">>), i + 9)
        ELSE JsonFail
  IN  IF i > Len(s) THEN JsonFail
      ELSE IF s[i] = "\"" THEN scanstring(s, i + 1)
      ELSE IF s[i] = "{" THEN JSONObject(s, i + 1)
      ELSE IF s[i] = "[" THEN JSONArray(s, i + 1)
      ELSE IF StartsWithAt(s, <<"n","u","l","l">>, i) THEN JsonOk(PyNone, i + 4)
      ELSE IF StartsWithAt(s, <<"t","r","u","e">>, i)
           THEN JsonOk(PyBool(<<"t","r","u","e">>), i + 4)
      ELSE IF StartsWithAt(s, <<"f","a","l","s","e">>, i)
           THEN JsonOk(PyBool(<<"f","a","l","s","e">>), i + 5)
      ELSE Number(NumberEnd(s, i))

\* json.loads(s): [ok, val]; ok is FALSE where json.loads raises
json_loads(s) ==
  LET Scanned(r) == IF r.ok /\ SkipWhitespace(s, r.end) = Len(s) + 1
                    THEN [ok |-> TRUE, val |-> r.val]
                    ELSE [ok |-> FALSE, val |-> PyNone]
  IN  Scanned(scan_once(s, SkipWhitespace(s, 1)))
----------------------------------------------------------------------------
(* checker.py: _simple_heuristic_checks *)

\* the keys of an issue dict
K_paragraph_index == <<"p","a","r","a","g","r","a","p","h","_","i","n","d","e","x">>

K_issue == <<"i","s","s","u","e">>

K_severity == <<"s","e","v","e","r","i","t","y">>

K_suggestion == <<"s","u","g","g","e","s","t","i","o","n">>

K_citation == <<"c","i","t","a","t","i","o","n">>

\* str(n) for 0 <= n <= 99
IntText(n) ==
  LET digit(d) == <<"0","1","2","3","4","5","6","7","8","9">>[d + 1]
  IN  IF n < 10 THEN <<digit(n)>> ELSE <<digit(n \div 10), digit(n % 10)>>

\* an issue dict, its keys in the order the code writes them
IssueDict(paragraph_index, issue, severity, suggestion, citation) ==
  PyDict(<< <<K_paragraph_index, PyNum(IntText(paragraph_index))>>,
            <<K_issue, PyStr(issue)>>,
            <<K_severity, PyStr(severity)>>,
            <<K_suggestion, PyStr(suggestion)>>,
            <<K_citation, PyStr(citation)>> >>)

\* checker.py:60
jurisdiction_issue_text ==
    <<"I","n","c","o","r","r","e","c","t"," ","j","u","r","i","s","d","i","c","t","i","o","n",
    " ","r","e","f","e","r","e","n","c","e","d"," ","(","m","e","n","t","i","o","n","s"," ",
    "U","A","E"," ","f","e","d","e","r","a","l"," ","c","o","u","r","t","s",")",".">>

\* checker.py:58-64
jurisdiction_issue(paragraph_index) ==
  IssueDict(paragraph_index,
    jurisdiction_issue_text,
    <<"H","i","g","h">>,
    <<"R","e","p","l","a","c","e"," ","w","i","t","h"," ","e","x","p","l","i","c","i","t"," ",
    "A","D","G","M"," ","j","u","r","i","s","d","i","c","t","i","o","n"," ","c","l","a","u",
    "s","e",","," ","e",".","g","."," ","'","T","h","i","s"," ","a","g","r","e","e","m","e",
    "n","t"," ","i","s"," ","g","o","v","e","r","n","e","d"," ","b","y"," ","t","h","e"," ",
    "l","a","w","s"," ","o","f"," ","t","h","e"," ","A","b","u"," ","D","h","a","b","i"," ",
    "G","l","o","b","a","l"," ","M","a","r","k","e","t"," ","(","A","D","G","M",")",".","'">>,
    <<"A","D","G","M"," ","C","o","m","p","a","n","i","e","s"," ","R","e","g","u","l","a","t",
    "i","o","n","s"," ","2","0","2","0",","," ","A","r","t","."," ","6"," ","(","e","x","a",
    "m","p","l","e",")">>)

\* checker.py:70
governing_law_issue_text ==
    <<"G","o","v","e","r","n","i","n","g"," ","l","a","w"," ","c","l","a","u","s","e"," ","p",
    "r","e","s","e","n","t"," ","b","u","t"," ","d","o","e","s"," ","n","o","t"," ","s","p",
    "e","c","i","f","y"," ","A","D","G","M",".">>

\* checker.py:68-74
governing_law_issue(paragraph_index) ==
  IssueDict(paragraph_index,
    governing_law_issue_text,
    <<"H","i","g","h">>,
    <<"M","o","d","i","f","y"," ","g","o","v","e","r","n","i","n","g"," ","l","a","w"," ","c",
    "l","a","u","s","e"," ","t","o"," ","e","x","p","l","i","c","i","t","l","y"," ","r","e",
    "f","e","r","e","n","c","e"," ","A","D","G","M"," ","j","u","r","i","s","d","i","c","t",
    "i","o","n",".">>,
    <<"A","D","G","M"," ","C","o","m","p","a","n","i","e","s"," ","R","e","g","u","l","a","t",
    "i","o","n","s"," ","2","0","2","0",","," ","A","r","t","."," ","6"," ","(","e","x","a",
    "m","p","l","e",")">>)

\* checker.py:82
signature_issue_text ==
    <<"P","o","s","s","i","b","l","e"," ","m","i","s","s","i","n","g"," ","s","i","g","n","a",
    "t","u","r","e"," ","/"," ","e","x","e","c","u","t","i","o","n"," ","b","l","o","c","k",
    ".">>

\* checker.py:80-86
signature_issue(paragraph_index) ==
  IssueDict(paragraph_index,
    signature_issue_text,
    <<"M","e","d","i","u","m">>,
    <<"E","n","s","u","r","e"," ","t","h","e","r","e"," ","i","s"," ","a"," ","s","i","g","n",
    "a","t","u","r","e"," ","b","l","o","c","k"," ","w","i","t","h"," ","p","r","i","n","t",
    "e","d"," ","n","a","m","e",","," ","t","i","t","l","e"," ","a","n","d"," ","d","a","t",
    "e",".">>,
    <<"A","D","G","M"," ","e","x","e","c","u","t","i","o","n"," ","s","i","g","n","a","t","u",
    "r","e"," ","g","u","i","d","a","n","c","e"," ","(","t","e","m","p","l","a","t","e",")">>)

\* checker.py:97
ambiguous_issue_text(p) ==
    <<"A","m","b","i","g","u","o","u","s","/","n","o","n","-","b","i","n","d","i","n","g"," ",
    "p","h","r","a","s","e"," ","d","e","t","e","c","t","e","d",":"," ","'">>
    \o p
    \o <<"'",".">>

\* checker.py:99
ambiguous_issue_suggestion(p) ==
    <<"C","o","n","s","i","d","e","r"," ","r","e","p","l","a","c","i","n","g"," ","'">>
    \o p
    \o <<"'"," ","w","i","t","h"," ","a"," ","p","r","e","c","i","s","e"," ","o","b","l","i","g",
    "a","t","i","o","n"," ","o","r"," ","t","i","m","e","s","c","a","l","e",".">>

\* checker.py:95-101
ambiguous_issue(p, paragraph_index) ==
  IssueDict(paragraph_index,
    ambiguous_issue_text(p),
    <<"L","o","w">>,
    ambiguous_issue_suggestion(p),
    << >>)

\* checker.py:108
ubo_issue_text ==
    <<"C","l","a","u","s","e"," ","c","o","n","c","e","r","n","s"," ","o","w","n","e","r","s",
    "h","i","p","/","s","h","a","r","e","h","o","l","d","e","r","s"," ","b","u","t"," ","U",
    "B","O"," ","d","i","s","c","l","o","s","u","r","e","s"," ","a","r","e"," ","n","o","t",
    " ","r","e","f","e","r","e","n","c","e","d",".">>

\* checker.py:106-112
ubo_issue(paragraph_index) ==
  IssueDict(paragraph_index,
    ubo_issue_text,
    <<"M","e","d","i","u","m">>,
    <<"E","n","s","u","r","e"," ","t","h","e"," ","d","o","c","u","m","e","n","t"," ","i","n",
    "c","l","u","d","e","s","/","l","i","n","k","s"," ","t","o"," ","a","n"," ","U","B","O",
    " ","d","e","c","l","a","r","a","t","i","o","n"," ","f","o","r","m"," ","w","h","e","r",
    "e"," ","r","e","l","e","v","a","n","t",".">>,
    <<"A","D","G","M"," ","r","e","g","i","s","t","r","y","/","U","B","O"," ","g","u","i","d",
    "a","n","c","e"," ","(","c","h","e","c","k"," ","A","D","G","M"," ","d","o","c","s",")">>)

\* checker.py:57, the alternatives of the jurisdiction pattern
jurisdiction_phrases ==
  <<(* uae federal courts *) <<"u","a","e"," ","f","e","d","e","r","a","l"," ","c","o","u","r","t","s">>,
    (* federal courts of the uae *) <<"f","e","d","e","r","a","l"," ","c","o","u","r","t","s"," ","o","f"," ","t","h","e",
      " ","u","a","e">>,
    (* uae courts *) <<"u","a","e"," ","c","o","u","r","t","s">>>>

\* checker.py:77, the alternatives of the signature pattern that are plain text
signature_phrases ==
  <<(* signature *) <<"s","i","g","n","a","t","u","r","e">>,
    (* signed by *) <<"s","i","g","n","e","d"," ","b","y">>,
    (* for and on behalf of *) <<"f","o","r"," ","a","n","d"," ","o","n"," ","b","e","h","a","l","f"," ","o","f">>>>

\* checker.py:79
agreement_markers ==
  <<(* agreement *) <<"a","g","r","e","e","m","e","n","t">>,
    (* this agreement *) <<"t","h","i","s"," ","a","g","r","e","e","m","e","n","t">>,
    (* in witness *) <<"i","n"," ","w","i","t","n","e","s","s">>>>

\* checker.py:89-92
ambiguous_phrases ==
  <<(* best efforts *) <<"b","e","s","t"," ","e","f","f","o","r","t","s">>,
    (* reasonable endeavours *) <<"r","e","a","s","o","n","a","b","l","e"," ","e","n","d","e","a","v","o","u","r","s">>,
    (* endeavour *) <<"e","n","d","e","a","v","o","u","r">>,
    (* as soon as reasonably practicable *) <<"a","s"," ","s","o","o","n"," ","a","s"," ","r","e","a","s","o","n","a","b","l","y",
      " ","p","r","a","c","t","i","c","a","b","l","e">>,
    (* subject to availability *) <<"s","u","b","j","e","c","t"," ","t","o"," ","a","v","a","i","l","a","b","i","l","i",
      "t","y">>,
    (* to the extent possible *) <<"t","o"," ","t","h","e"," ","e","x","t","e","n","t"," ","p","o","s","s","i","b","l",
      "e">>,
    (* where possible *) <<"w","h","e","r","e"," ","p","o","s","s","i","b","l","e">>>>

\* checker.py:105
ownership_terms ==
  <<(* shareholder *) <<"s","h","a","r","e","h","o","l","d","e","r">>,
    (* shares *) <<"s","h","a","r","e","s">>,
    (* beneficial owner *) <<"b","e","n","e","f","i","c","i","a","l"," ","o","w","n","e","r">>>>

\* re.search(r'\b(a|b|...)\b', lt): an alternative (each begins and ends with a
\* word character) found where no word character precedes or follows it
SearchWholeWords(lt, alternatives) ==
  \E a \in 1..Len(alternatives) : \E i \in 1..Len(lt) :
     /\ MatchAt(lt, alternatives[a], i)
     /\ (i = 1 \/ ~IsWordChar(lt[i - 1]))
     /\ (i + Len(alternatives[a]) > Len(lt) \/ ~IsWordChar(lt[i + Len(alternatives[a])]))

\* any(k in lt for k in phrases)
ContainsAny(lt, phrases) == \E n \in 1..Len(phrases) : Contains(lt, phrases[n])

\* re.search(r'signature|signed by|signature:\s|for and on behalf of', lt)
SearchSignature(lt) ==
  \/ ContainsAny(lt, signature_phrases)
  \/ \E i \in 1..Len(lt) :
        /\ MatchAt(lt, <<"s","i","g","n","a","t","u","r","e",":">>, i)
        /\ i + 10 <= Len(lt)
        /\ lt[i + 10] \in Whitespace

\* checker.py:79, the length a clause must exceed for the signature warning
SIGNATURE_MIN_LENGTH == 200

\* _simple_heuristic_checks with the governing-law rule run before the
\* jurisdiction rule
heuristic_checks_governing_law_first(clause_text, paragraph_index) ==
  LET lt == lower(clause_text)
      jurisdiction ==
        IF SearchWholeWords(lt, jurisdiction_phrases)
        THEN <<jurisdiction_issue(paragraph_index)>> ELSE << >>
      governing_law ==
        IF Contains(lt, <<"g","o","v","e","r","n","e","d"," ","b","y">>)
           /\ ~Contains(lt, <<"a","d","g","m">>)
        THEN <<governing_law_issue(paragraph_index)>> ELSE << >>
      signature ==
        IF ~SearchSignature(lt) /\ Len(lt) > SIGNATURE_MIN_LENGTH
           /\ ContainsAny(lt, agreement_markers)
        THEN <<signature_issue(paragraph_index)>> ELSE << >>
      found == {n \in 1..Len(ambiguous_phrases) : Contains(lt, ambiguous_phrases[n])}
      ambiguous ==
        IF found # {}
        THEN <<ambiguous_issue(
                 ambiguous_phrases[CHOOSE n \in found : \A m \in found : n <= m],
                 paragraph_index)>>
        ELSE << >>
      ubo ==
        IF ContainsAny(lt, ownership_terms) /\ ~Contains(lt, <<"u","b","o">>)
           /\ ~Contains(lt, <<"u","l","t","i","m","a","t","e"," ","b","e","n","e","f","i",
                              "c","i","a","l"," ","o","w","n","e","r">>)
        THEN <<ubo_issue(paragraph_index)>> ELSE << >>
  IN  governing_law \o jurisdiction \o signature \o ambiguous \o ubo

\* _simple_heuristic_checks without the break of the ambiguous-phrase loop: every
\* phrase found gets an issue
heuristic_checks_without_break(clause_text, paragraph_index) ==
  LET lt == lower(clause_text)
      jurisdiction ==
        IF SearchWholeWords(lt, jurisdiction_phrases)
        THEN <<jurisdiction_issue(paragraph_index)>> ELSE << >>
      governing_law ==
        IF Contains(lt, <<"g","o","v","e","r","n","e","d"," ","b","y">>)
           /\ ~Contains(lt, <<"a","d","g","m">>)
        THEN <<governing_law_issue(paragraph_index)>> ELSE << >>
      signature ==
        IF ~SearchSignature(lt) /\ Len(lt) > SIGNATURE_MIN_LENGTH
           /\ ContainsAny(lt, agreement_markers)
        THEN <<signature_issue(paragraph_index)>> ELSE << >>
      found == {n \in 1..Len(ambiguous_phrases) : Contains(lt, ambiguous_phrases[n])}
      hits == SelectSeq([n \in 1..Len(ambiguous_phrases) |-> n], LAMBDA n : n \in found)
      ambiguous ==
        [i \in 1..Len(hits) |-> ambiguous_issue(ambiguous_phrases[hits[i]], paragraph_index)]
      ubo ==
        IF ContainsAny(lt, ownership_terms) /\ ~Contains(lt, <<"u","b","o">>)
           /\ ~Contains(lt, <<"u","l","t","i","m","a","t","e"," ","b","e","n","e","f","i",
                              "c","i","a","l"," ","o","w","n","e","r">>)
        THEN <<ubo_issue(paragraph_index)>> ELSE << >>
  IN  jurisdiction \o governing_law \o signature \o ambiguous \o ubo

\* the issue dicts of the heuristic checks, in rule order
_simple_heuristic_checks(clause_text, paragraph_index) ==
  LET lt == lower(clause_text)
      jurisdiction ==
        IF SearchWholeWords(lt, jurisdiction_phrases)
        THEN <<jurisdiction_issue(paragraph_index)>> ELSE << >>
      governing_law ==
        IF Contains(lt, <<"g","o","v","e","r","n","e","d"," ","b","y">>)
           /\ ~Contains(lt, <<"a","d","g","m">>)
        THEN <<governing_law_issue(paragraph_index)>> ELSE << >>
      signature ==
        IF ~SearchSignature(lt) /\ Len(lt) > SIGNATURE_MIN_LENGTH
           /\ ContainsAny(lt, agreement_markers)
        THEN <<signature_issue(paragraph_index)>> ELSE << >>
      found == {n \in 1..Len(ambiguous_phrases) : Contains(lt, ambiguous_phrases[n])}
      ambiguous ==
        IF found # {}
        THEN <<ambiguous_issue(
                 ambiguous_phrases[CHOOSE n \in found : \A m \in found : n <= m],
                 paragraph_index)>>
        ELSE << >>
      ubo ==
        IF ContainsAny(lt, ownership_terms) /\ ~Contains(lt, <<"u","b","o">>)
           /\ ~Contains(lt, <<"u","l","t","i","m","a","t","e"," ","b","e","n","e","f","i",
                              "c","i","a","l"," ","o","w","n","e","r">>)
        THEN <<ubo_issue(paragraph_index)>> ELSE << >>
  IN  jurisdiction \o governing_law \o signature \o ambiguous \o ubo

----------------------------------------------------------------------------
(* checker.py: _safe_parse_json *)

\* re.search(r'(<open>.*<close>)', text, flags=re.DOTALL).group(1): from the first
\* <open> to the last <close> after it; << >> when there is no match
GreedySpan(text, open, close) ==
  LET Closes(first) == {i \in (first + 1)..Len(text) : text[i] = close}
      From(first, closes) ==
        IF closes = {} THEN << >>
        ELSE SubSeq(text, first, CHOOSE i \in closes : \A j \in closes : j <= i)
      Opens(opens) ==
        IF opens = {} THEN << >>
        ELSE (LET First(first) == From(first, Closes(first))
              IN  First(CHOOSE i \in opens : \A j \in opens : i <= j))
  IN  Opens({i \in 1..Len(text) : text[i] = open})

\* re.sub(r',\s*([\]}])', r'\1', s): a comma, the whitespace after it and the
\* closing bracket or brace that follows are replaced by the bracket or brace, so
\* the comma and that whitespace go
strip_trailing_commas(s) ==
  LET Matches(i) == /\ s[i] = ","
                    /\ SkipWhitespace(s, i + 1) <= Len(s)
                    /\ s[SkipWhitespace(s, i + 1)] \in {"]", "}"}
      Dropped(p) == \E i \in 1..p : Matches(i) /\ p < SkipWhitespace(s, i + 1)
      kept == SelectSeq([i \in 1..Len(s) |-> i], LAMBDA p : ~Dropped(p))
  IN  SubSeq([n \in 1..Len(kept) |-> s[kept[n]]], 1, Len(kept))

\* the local `candidate` of _safe_parse_json: the array span when there is one,
\* else the object span, else nothing (<< >>)
parse_candidate(text) ==
  LET Array(first_array) ==
        IF first_array # << >> THEN first_array ELSE GreedySpan(text, "{", "}")
  IN  Array(GreedySpan(text, "[", "]"))

\* _safe_parse_json(text): the parsed value, or None
_safe_parse_json(raw) ==
  LET Fixed(fixed) == IF fixed.ok THEN fixed.val ELSE PyNone
      Plain(candidate, plain) ==
        IF plain.ok THEN plain.val
        ELSE Fixed(json_loads(strip_trailing_commas(candidate)))
      Candidate(candidate) ==
        IF candidate = << >> THEN PyNone ELSE Plain(candidate, json_loads(candidate))
      Direct(text, direct) ==
        IF direct.ok THEN direct.val ELSE Candidate(parse_candidate(text))
      Text(text) == IF text = << >> THEN PyNone ELSE Direct(text, json_loads(text))
  IN  Text(strip(raw))
----------------------------------------------------------------------------
(* checker.py: retrieve_context *)

\* checker.py:18, the default of _clean_snippet's length
SNIPPET_LENGTH == 1000

\* _clean_snippet(s, length)
_clean_snippet(s, length) ==
  LET t == strip(s)
  IN  IF Len(t) > length THEN SubSeq(t, 1, length) \o <<".", ".", ".">> ELSE t

K_source == <<"s","o","u","r","c","e">>

K_url == <<"u","r","l">>

\* str(v) for a str or None
PyToStr(v) == IF v.k = "none" THEN <<"N","o","n","e">> ELSE v.v

\* sep.join(pieces)
RECURSIVE JoinWith(_, _)
JoinWith(sep, pieces) ==
  IF pieces = << >> THEN << >>
  ELSE IF Len(pieces) = 1 THEN pieces[1]
  ELSE pieces[1] \o sep \o JoinWith(sep, Tail(pieces))

\* retrieve_context(vectorstore, query, k): `search` is what
\* vectorstore.similarity_search(query, k=k) does, raising or returning documents;
\* a document may lack the attributes metadata and page_content, and its metadata
\* may be None
retrieve_context(search) ==
  LET docs == IF search.raises THEN << >> ELSE search.docs
      Piece(d) ==
        LET meta == IF d.has_metadata /\ d.metadata.k = "dict"
                    THEN d.metadata ELSE PyDict(<< >>)
            src == IF DictHas(meta, K_source) THEN DictAt(meta, K_source)
                   ELSE IF DictHas(meta, K_url) THEN DictAt(meta, K_url)
                   ELSE PyStr(<<"u","n","k","n","o","w","n">>)
            snippet == _clean_snippet(IF d.has_page_content THEN d.page_content ELSE << >>,
                                      SNIPPET_LENGTH)
        IN  <<"S","o","u","r","c","e",":"," ">> \o PyToStr(src) \o <<"\n">> \o snippet
  IN  IF docs = << >> THEN << >>
      ELSE JoinWith(<<"\n", "\n">>, [i \in 1..Len(docs) |-> Piece(docs[i])])

----------------------------------------------------------------------------
(* checker.py: check_clause *)

\* what iterating a Python value yields: the items of a list, the keys of a dict,
\* the characters of a str
IterItems(v) ==
  IF v.k = "list" THEN v.v
  ELSE IF v.k = "dict" THEN [i \in 1..Len(v.v) |-> PyStr(v.v[i][1])]
  ELSE [i \in 1..Len(v.v) |-> PyStr(<<v.v[i]>>)]

\* a value Python cannot hash: membership in a set raises TypeError
Unhashable(v) == v.k \in {"list", "dict"}

\* FilterParsed with paragraph_index assigned instead of set by default: an
\* element's own paragraph_index is overwritten
FilterParsed_index_overwritten(parsed, paragraph_index) ==
  LET items == IterItems(parsed)
      stamped == [i \in 1..Len(items) |->
                    IF items[i].k = "dict"
                    THEN PyDict(PairsSet(items[i].v, K_paragraph_index,
                                         PyNum(IntText(paragraph_index))))
                    ELSE items[i]]
  IN  SelectSeq(stamped,
                LAMBDA it : /\ it.k = "dict"
                            /\ DictHas(it, K_issue)
                            /\ DictHas(it, K_severity)
                            /\ DictHas(it, K_suggestion))

\* checker.py:199-205, the list `out`: the mappings of `parsed` that hold the keys
\* issue, severity and suggestion, each with paragraph_index set when it had none
FilterParsed(parsed, paragraph_index) ==
  LET items == IterItems(parsed)
      stamped == [i \in 1..Len(items) |->
                    IF items[i].k = "dict"
                    THEN DictSetDefault(items[i], K_paragraph_index,
                                        PyNum(IntText(paragraph_index)))
                    ELSE items[i]]
  IN  SelectSeq(stamped,
                LAMBDA it : /\ it.k = "dict"
                            /\ DictHas(it, K_issue)
                            /\ DictHas(it, K_severity)
                            /\ DictHas(it, K_suggestion))

\* checker.py:207-210, `issues` after the merge loop: each item of `out` whose
\* issue is not among the heuristic issue texts is appended; the loop stops where
\* the test raises, and what it appended before stays in `issues`
MergeIssues(issues, out) ==
  LET existing_issues_texts == {DictAt(issues[i], K_issue) : i \in 1..Len(issues)}
      raising == {n \in 1..Len(out) : Unhashable(DictGet(out[n], K_issue))}
      reached == IF raising = {} THEN out
                 ELSE SubSeq(out, 1, (CHOOSE n \in raising : \A m \in raising : n <= m) - 1)
  IN  issues \o SelectSeq(reached,
                          LAMBDA o : DictGet(o, K_issue) \notin existing_issues_texts)

\* check_clause that asks the generative service whether or not GEN_KEY is set
check_clause_without_key_check(clause_text, paragraph_index, search, gen_key, generation) ==
  LET Returns(issues, parsed, out) ==
        [value |-> issues, gen_calls |-> 1, context |-> << >>, caught |-> "none",
         parsed |-> parsed, out |-> out]
      Merged(issues, parsed, out) == Returns(MergeIssues(issues, out), parsed, out)
      Parsed(issues, parsed) ==
        IF parsed.k \notin {"list", "dict", "str"} THEN Returns(issues, parsed, << >>)
        ELSE Merged(issues, parsed, FilterParsed(parsed, paragraph_index))
      Heuristics(issues) ==
        IF generation.kind \in {"raise_call", "raise_text"}
        THEN Returns(issues, PyNone, << >>)
        ELSE Parsed(issues, _safe_parse_json(strip(generation.text)))
  IN  Heuristics(_simple_heuristic_checks(clause_text, paragraph_index))

\* check_clause(clause_text, paragraph_index, vectorstore): `search` is what the
\* vector store's search does, `gen_key` whether GEN_KEY is set, `generation` what
\* the generative service does when called (it raises in the call, or when
\* resp.text is read, or gives a text).  The returned list, the number of calls
\* made to the generative service, the context retrieved, the statement whose
\* exception the except clause caught ("none" when it caught nothing), and the
\* locals `parsed` and `out` (None and the empty list where they are not set).
check_clause(clause_text, paragraph_index, search, gen_key, generation) ==
  LET Returns(issues, context, gen_calls, caught, parsed, out) ==
        [value |-> issues, gen_calls |-> gen_calls, context |-> context,
         caught |-> caught, parsed |-> parsed, out |-> out]
      Merged(issues, context, parsed, out) ==
        Returns(MergeIssues(issues, out), context, 1,
                IF \E n \in 1..Len(out) : Unhashable(DictGet(out[n], K_issue))
                THEN "not in existing_issues_texts" ELSE "none",
                parsed, out)
      Parsed(issues, context, parsed) ==
        IF parsed.k = "none" THEN Returns(issues, context, 1, "none", parsed, << >>)
        ELSE IF parsed.k \in {"num", "bool"}
        THEN Returns(issues, context, 1, "for it in parsed", parsed, << >>)
        ELSE Merged(issues, context, parsed, FilterParsed(parsed, paragraph_index))
      Prompted(issues, context) ==
        IF ~gen_key THEN Returns(issues, context, 0, "none", PyNone, << >>)
        ELSE IF generation.kind = "raise_call"
        THEN Returns(issues, context, 1, "generate_content", PyNone, << >>)
        ELSE IF generation.kind = "raise_text"
        THEN Returns(issues, context, 1, "resp.text", PyNone, << >>)
        ELSE Parsed(issues, context, _safe_parse_json(strip(generation.text)))
  IN  Prompted(_simple_heuristic_checks(clause_text, paragraph_index),
               retrieve_context(search))
----------------------------------------------------------------------------
(* app.py: the checklist part of the report *)

\* app.py:79-81: the process (detected, or the default), its required list and
\* what is missing from the uploaded types
report_checklist(uploaded) ==
  LET detected == detect_process_from_uploaded_types(uploaded)
      process == IF detected = "None" THEN "Company Incorporation" ELSE detected
      required == ChecklistGet(process)
  IN  [process |-> process,
       required |-> required,
       missing |-> Range(required) \ uploaded]

----------------------------------------------------------------------------
(* State *)

\* no function has been called on the current inputs
NoCall == [fn |-> "none"]

NoReport == [process |-> "None"]

NoMessage == [kind |-> "none"]

\* check_clause is not being called
NoClause == [clause_text |-> << >>]

\* the response "[]"
NoResponse == [prefix |-> << >>, items |-> << >>, trailing |-> FALSE, suffix |-> << >>]

\* no Analyze run has started
NoRun ==
  /\ uploaded_files = << >>
  /\ file_pos = 0
  /\ reports = << >>
  /\ annotated_outputs = << >>
  /\ final_report = NoReport
  /\ checklist_msg = NoMessage
  /\ run_pc = "idle"

\* the functions are called outside a run of the application
InitFunctions ==
  /\ uploaded_types = {}
  /\ s_chunks = << >>
  /\ t_chunks = << >>
  /\ clause_call = NoClause
  /\ resp = NoResponse
  /\ ret = NoCall
  /\ GEN_KEY = FALSE
  /\ vectordb = "None"
  /\ NoRun

----------------------------------------------------------------------------
(* The checklist engine and the process detection, called on every set of  *)
(* at most MaxUploaded labels                                              *)

MaxUploaded == 3

\* the process names handed to the checklist engine: the catalog's and one it lacks
Processes == {CHECKLIST[i].process : i \in 1..Len(CHECKLIST)} \cup {"Trademark Filing"}

\* app.py:50-51, uploaded_types.add(d)
Upload(d) ==
  /\ d \notin uploaded_types
  /\ Cardinality(uploaded_types) < MaxUploaded
  /\ uploaded_types' = uploaded_types \cup {d}
  /\ ret' = NoCall
  /\ UNCHANGED <<input_vars, env_vars, app_vars>>

CallChecklistComparison(p) ==
  /\ ret' = [fn |-> "checklist_comparison_for_process", process |-> p,
             uploaded |-> uploaded_types,
             value |-> checklist_comparison_for_process(p, uploaded_types)]
  /\ UNCHANGED <<uploaded_types, input_vars, env_vars, app_vars>>

CallBuildMessage(p) ==
  /\ ret' = [fn |-> "build_user_checklist_message", process |-> p,
             uploaded |-> uploaded_types,
             value |-> build_user_checklist_message(p, uploaded_types)]
  /\ UNCHANGED <<uploaded_types, input_vars, env_vars, app_vars>>

CallDetectProcess ==
  /\ ret' = [fn |-> "detect_process_from_uploaded_types",
             uploaded |-> uploaded_types,
             value |-> detect_process_from_uploaded_types(uploaded_types)]
  /\ UNCHANGED <<uploaded_types, input_vars, env_vars, app_vars>>

CallReportChecklist ==
  /\ ret' = [fn |-> "report_checklist",
             uploaded |-> uploaded_types,
             value |-> report_checklist(uploaded_types)]
  /\ UNCHANGED <<uploaded_types, input_vars, env_vars, app_vars>>

NextChecklist ==
  \/ \E d \in ChecklistLabels : Upload(d)
  \/ \E p \in Processes : CallChecklistComparison(p)
  \/ \E p \in Processes : CallBuildMessage(p)
  \/ CallDetectProcess
  \/ CallReportChecklist

SpecChecklist == InitFunctions /\ [][NextChecklist]_vars

----------------------------------------------------------------------------
(* The classifier, called on a sample s and on s with a text t added on     *)
(* either side; s is made of at most MaxSampleChunks pieces and t of at     *)
(* most MaxAddedChunks                                                      *)

MaxSampleChunks == 2

MaxAddedChunks == 1

\* pieces of text: keywords in either case, and parts that make a keyword only
\* where two pieces meet
TextChunks ==
  {<<"B","o","a","r","d"," ">>,
   <<"R","E","S","O","L","U","T","I","O","N">>,
   <<"N">>,
   <<"D","A">>,
   <<" ","o","f"," ","t","h","e"," ">>,
   <<"M","o","A">>}

AppendSample(c) ==
  /\ Len(s_chunks) < MaxSampleChunks
  /\ s_chunks' = Append(s_chunks, c)
  /\ ret' = NoCall
  /\ UNCHANGED <<uploaded_types, t_chunks, clause_call, resp, env_vars, app_vars>>

AppendAdded(c) ==
  /\ Len(t_chunks) < MaxAddedChunks
  /\ t_chunks' = Append(t_chunks, c)
  /\ ret' = NoCall
  /\ UNCHANGED <<uploaded_types, s_chunks, clause_call, resp, env_vars, app_vars>>

\* detect_doc_type_from_text on s, on s + t and on t + s
CallDetectDocType ==
  /\ ret.fn = "none"
  /\ LET s == Join(s_chunks)
         t == Join(t_chunks)
     IN  ret' = [fn |-> "detect_doc_type_from_text", s |-> s, t |-> t,
                 on_s |-> detect_doc_type_from_text(s),
                 on_st |-> detect_doc_type_from_text(s \o t),
                 on_ts |-> detect_doc_type_from_text(t \o s)]
  /\ UNCHANGED <<uploaded_types, input_vars, env_vars, app_vars>>

NextClassify ==
  \/ \E c \in TextChunks : AppendSample(c)
  \/ \E c \in TextChunks : AppendAdded(c)
  \/ CallDetectDocType

SpecClassify == InitFunctions /\ [][NextClassify]_vars

----------------------------------------------------------------------------
(* Responses of the generative service: an item is the text of one array    *)
(* element and the value that text writes                                   *)

\* Scenario 5's object:
\*   {"issue":"X","severity":"Low","suggestion":"Y","citation":""}
ITEM_X ==
  [text |->
     <<"{","\"","i","s","s","u","e","\"",":","\"","X","\"",",","\"","s","e","v","e","r","i",
     "t","y","\"",":","\"","L","o","w","\"",",","\"","s","u","g","g","e","s","t","i","o",
     "n","\"",":","\"","Y","\"",",","\"","c","i","t","a","t","i","o","n","\"",":","\"","\"",
     "}">>,
   value |->
     PyDict(<< <<K_issue, PyStr(<<"X">>)>>,
               <<K_severity, PyStr(<<"L","o","w">>)>>,
               <<K_suggestion, PyStr(<<"Y">>)>>,
               <<K_citation, PyStr(<< >>)>> >>)]

\* an object whose issue is the governing-law rule's text:
\*   {"issue":"Governing law clause present but does not specify ADGM.","severity":"High","suggestion":"S"}
ITEM_GOV ==
  [text |->
     <<"{","\"","i","s","s","u","e","\"",":","\"","G","o","v","e","r","n","i","n","g"," ","l",
     "a","w"," ","c","l","a","u","s","e"," ","p","r","e","s","e","n","t"," ","b","u","t",
     " ","d","o","e","s"," ","n","o","t"," ","s","p","e","c","i","f","y"," ","A","D","G",
     "M",".","\"",",","\"","s","e","v","e","r","i","t","y","\"",":","\"","H","i","g","h",
     "\"",",","\"","s","u","g","g","e","s","t","i","o","n","\"",":","\"","S","\"","}">>,
   value |->
     PyDict(<< <<K_issue, PyStr(<<"G","o","v","e","r","n","i","n","g"," ","l","a","w"," ","c","l",
                         "a","u","s","e"," ","p","r","e","s","e","n","t"," ","b","u","t",
                         " ","d","o","e","s"," ","n","o","t"," ","s","p","e","c","i","f",
                         "y"," ","A","D","G","M",".">>)>>,
               <<K_severity, PyStr(<<"H","i","g","h">>)>>,
               <<K_suggestion, PyStr(<<"S">>)>> >>)]

\* an object with a paragraph_index of its own:
\*   {"paragraph_index":7,"issue":"W","severity":"High","suggestion":"S"}
ITEM_PI ==
  [text |->
     <<"{","\"","p","a","r","a","g","r","a","p","h","_","i","n","d","e","x","\"",":","7",",",
     "\"","i","s","s","u","e","\"",":","\"","W","\"",",","\"","s","e","v","e","r","i","t",
     "y","\"",":","\"","H","i","g","h","\"",",","\"","s","u","g","g","e","s","t","i","o",
     "n","\"",":","\"","S","\"","}">>,
   value |->
     PyDict(<< <<K_paragraph_index, PyNum(<<"7">>)>>,
               <<K_issue, PyStr(<<"W">>)>>,
               <<K_severity, PyStr(<<"H","i","g","h">>)>>,
               <<K_suggestion, PyStr(<<"S">>)>> >>)]

\* an object without the key suggestion:
\*   {"issue":"Z","severity":"Low"}
ITEM_NOSUGG ==
  [text |->
     <<"{","\"","i","s","s","u","e","\"",":","\"","Z","\"",",","\"","s","e","v","e","r","i",
     "t","y","\"",":","\"","L","o","w","\"","}">>,
   value |->
     PyDict(<< <<K_issue, PyStr(<<"Z">>)>>,
               <<K_severity, PyStr(<<"L","o","w">>)>> >>)]

\* an object whose issue is a list:
\*   {"issue":["X"],"severity":"Low","suggestion":"Y"}
ITEM_UNHASH ==
  [text |->
     <<"{","\"","i","s","s","u","e","\"",":","[","\"","X","\"","]",",","\"","s","e","v","e",
     "r","i","t","y","\"",":","\"","L","o","w","\"",",","\"","s","u","g","g","e","s","t",
     "i","o","n","\"",":","\"","Y","\"","}">>,
   value |->
     PyDict(<< <<K_issue, PyList(<<PyStr(<<"X">>)>>)>>,
               <<K_severity, PyStr(<<"L","o","w">>)>>,
               <<K_suggestion, PyStr(<<"Y">>)>> >>)]

\* an element that is a string:
\*   "note"
ITEM_NOTE ==
  [text |->
     <<"\"","n","o","t","e","\"">>,
   value |->
     PyStr(<<"n","o","t","e">>)]

\* an object with a comma before a bracket inside a string:
\*   {"issue":"see [a,]","severity":"Low","suggestion":"Y"}
ITEM_COMMA ==
  [text |->
     <<"{","\"","i","s","s","u","e","\"",":","\"","s","e","e"," ","[","a",",","]","\"",",",
     "\"","s","e","v","e","r","i","t","y","\"",":","\"","L","o","w","\"",",","\"","s","u",
     "g","g","e","s","t","i","o","n","\"",":","\"","Y","\"","}">>,
   value |->
     PyDict(<< <<K_issue, PyStr(<<"s","e","e"," ","[","a",",","]">>)>>,
               <<K_severity, PyStr(<<"L","o","w">>)>>,
               <<K_suggestion, PyStr(<<"Y">>)>> >>)]

\* an object with a trailing comma before its brace:
\*   {"issue":"T","severity":"Low","suggestion":"Y",}
ITEM_TRAIL ==
  [text |->
     <<"{","\"","i","s","s","u","e","\"",":","\"","T","\"",",","\"","s","e","v","e","r","i",
     "t","y","\"",":","\"","L","o","w","\"",",","\"","s","u","g","g","e","s","t","i","o",
     "n","\"",":","\"","Y","\"",",","}">>,
   value |->
     PyDict(<< <<K_issue, PyStr(<<"T">>)>>,
               <<K_severity, PyStr(<<"L","o","w">>)>>,
               <<K_suggestion, PyStr(<<"Y">>)>> >>)]

\* an object whose paragraph_index is a list:
\*   {"paragraph_index":[1],"issue":"V","severity":"Low","suggestion":"Y"}
ITEM_BADPI ==
  [text |->
     <<"{","\"","p","a","r","a","g","r","a","p","h","_","i","n","d","e","x","\"",":","[","1",
     "]",",","\"","i","s","s","u","e","\"",":","\"","V","\"",",","\"","s","e","v","e","r",
     "i","t","y","\"",":","\"","L","o","w","\"",",","\"","s","u","g","g","e","s","t","i",
     "o","n","\"",":","\"","Y","\"","}">>,
   value |->
     PyDict(<< <<K_paragraph_index, PyList(<<PyNum(<<"1">>)>>)>>,
               <<K_issue, PyStr(<<"V">>)>>,
               <<K_severity, PyStr(<<"L","o","w">>)>>,
               <<K_suggestion, PyStr(<<"Y">>)>> >>)]

\* "Here are the findings: ", the prose of Scenario 5
PROSE ==
  <<"H","e","r","e"," ","a","r","e"," ","t","h","e"," ","f","i","n","d","i","n","g","s",":",
  " ">>

\* text after the array that holds another bracket pair
SEE_NOTE ==
  <<" ","s","e","e"," ","[","1","]">>

----------------------------------------------------------------------------
(* Clause texts *)

\* Scenario 1:
\*   This Agreement shall be governed by the laws of the UAE federal courts.
CLAUSE_SCENARIO_1 ==
  <<"T","h","i","s"," ","A","g","r","e","e","m","e","n","t"," ","s","h","a","l","l"," ","b",
  "e"," ","g","o","v","e","r","n","e","d"," ","b","y"," ","t","h","e"," ","l","a","w","s",
  " ","o","f"," ","t","h","e"," ","U","A","E"," ","f","e","d","e","r","a","l"," ","c","o",
  "u","r","t","s",".">>

\* Scenario 2:
\*   The parties shall use reasonable endeavours to complete the transfer.
CLAUSE_SCENARIO_2 ==
  <<"T","h","e"," ","p","a","r","t","i","e","s"," ","s","h","a","l","l"," ","u","s","e"," ",
  "r","e","a","s","o","n","a","b","l","e"," ","e","n","d","e","a","v","o","u","r","s"," ",
  "t","o"," ","c","o","m","p","l","e","t","e"," ","t","h","e"," ","t","r","a","n","s","f",
  "e","r",".">>

\* an ownership clause:
\*   Each shareholder holds shares governed by ADGM law.
CLAUSE_SHARES ==
  <<"E","a","c","h"," ","s","h","a","r","e","h","o","l","d","e","r"," ","h","o","l","d","s",
  " ","s","h","a","r","e","s"," ","g","o","v","e","r","n","e","d"," ","b","y"," ","A","D",
  "G","M"," ","l","a","w",".">>

\* a clause no rule fires on:
\*   The director signs the execution page.
CLAUSE_PLAIN ==
  <<"T","h","e"," ","d","i","r","e","c","t","o","r"," ","s","i","g","n","s"," ","t","h","e",
  " ","e","x","e","c","u","t","i","o","n"," ","p","a","g","e",".">>

\* a clause of 219 characters without a signature block:
\*   This Agreement is entered into by the parties for the supply of consulting servi ...
CLAUSE_LONG ==
  <<"T","h","i","s"," ","A","g","r","e","e","m","e","n","t"," ","i","s"," ","e","n","t","e",
  "r","e","d"," ","i","n","t","o"," ","b","y"," ","t","h","e"," ","p","a","r","t","i","e",
  "s"," ","f","o","r"," ","t","h","e"," ","s","u","p","p","l","y"," ","o","f"," ","c","o",
  "n","s","u","l","t","i","n","g"," ","s","e","r","v","i","c","e","s"," ","i","n"," ","t",
  "h","e"," ","A","b","u"," ","D","h","a","b","i"," ","G","l","o","b","a","l"," ","M","a",
  "r","k","e","t"," ","a","n","d"," ","s","e","t","s"," ","o","u","t"," ","t","h","e"," ",
  "t","e","r","m","s"," ","o","n"," ","w","h","i","c","h"," ","t","h","e"," ","c","o","n",
  "s","u","l","t","a","n","t"," ","w","i","l","l"," ","d","e","l","i","v","e","r"," ","t",
  "h","e"," ","a","g","r","e","e","d"," ","w","o","r","k"," ","t","o"," ","t","h","e"," ",
  "c","l","i","e","n","t"," ","o","v","e","r"," ","t","h","e"," ","t","e","r","m",".">>

ClauseTexts ==
  {CLAUSE_SCENARIO_1, CLAUSE_SCENARIO_2, CLAUSE_SHARES, CLAUSE_PLAIN, CLAUSE_LONG}

ParagraphIndexes == {0, 3}

\* a document as rag_loader.py stores it: metadata with a source, and a text
RAG_DOCUMENT ==
  [has_metadata |-> TRUE,
   metadata |-> PyDict(<< <<K_source, PyStr(<<"a","d","g","m",".","p","d","f">>)>>,
                          <<K_url, PyNone>> >>),
   has_page_content |-> TRUE,
   page_content |-> <<" ","A","D","G","M"," ","c","o","u","r","t","s"," ","h","a","v","e"," ",
                   "j","u","r","i","s","d","i","c","t","i","o","n",".","\n">>]

\* a document without the attributes metadata and page_content
BARE_DOCUMENT ==
  [has_metadata |-> FALSE, metadata |-> PyNone,
   has_page_content |-> FALSE, page_content |-> << >>]

\* what vectorstore.similarity_search does: it raises, finds nothing, or returns
\* documents
Searches ==
  {[raises |-> TRUE, docs |-> << >>],
   [raises |-> FALSE, docs |-> << >>],
   [raises |-> FALSE, docs |-> <<RAG_DOCUMENT, BARE_DOCUMENT>>]}

----------------------------------------------------------------------------
(* Response texts *)

\* the sequences of at most n elements of S
SeqsUpTo(S, n) == UNION {[1..m -> S] : m \in 0..n}

\* the text of a response: prose, then "[" item "," item ... "]" with a comma
\* before the "]" when `trailing`, then a suffix
ResponseText(r) ==
  r.prefix \o <<"[">> \o JoinWith(<<",">>, [i \in 1..Len(r.items) |-> r.items[i].text])
    \o (IF r.trailing THEN <<",">> ELSE << >>) \o <<"]">> \o r.suffix

----------------------------------------------------------------------------
(* _safe_parse_json, called on the responses made of at most MaxParseItems  *)
(* objects                                                                  *)

MaxParseItems == 2

ParseResponses ==
  {[prefix |-> p, items |-> s, trailing |-> t, suffix |-> x] :
     p \in {<< >>, PROSE},
     s \in SeqsUpTo({ITEM_X, ITEM_COMMA, ITEM_TRAIL}, MaxParseItems),
     t \in BOOLEAN,
     x \in {<< >>, SEE_NOTE}}

InitParse ==
  /\ resp \in ParseResponses
  /\ uploaded_types = {}
  /\ s_chunks = << >>
  /\ t_chunks = << >>
  /\ clause_call = NoClause
  /\ ret = NoCall
  /\ GEN_KEY = FALSE
  /\ vectordb = "None"
  /\ NoRun

\* _safe_parse_json on the response text; `candidate` is its local of that name
CallSafeParseJson ==
  /\ ret.fn = "none"
  /\ ret' = [fn |-> "_safe_parse_json",
             text |-> ResponseText(resp),
             candidate |-> parse_candidate(strip(ResponseText(resp))),
             value |-> _safe_parse_json(ResponseText(resp))]
  /\ UNCHANGED <<uploaded_types, input_vars, env_vars, app_vars>>

NextParse == CallSafeParseJson

SpecParse == InitParse /\ [][NextParse]_vars

----------------------------------------------------------------------------
(* check_clause, called on every clause text with every outcome of the      *)
(* search and of the generative service, whose responses hold at most       *)
(* MaxResponseItems elements                                                *)

MaxResponseItems == 2

\* responses that are a JSON array of at most MaxResponseItems elements
ClauseResponses ==
  {[prefix |-> << >>, items |-> s, trailing |-> FALSE, suffix |-> << >>] :
     s \in SeqsUpTo({ITEM_X, ITEM_GOV, ITEM_PI, ITEM_NOSUGG, ITEM_UNHASH, ITEM_NOTE},
                    MaxResponseItems)}

\* Scenario 5's response: prose, then an array with a trailing comma
RESPONSE_SCENARIO_5 ==
  ResponseText([prefix |-> PROSE, items |-> <<ITEM_X>>, trailing |-> TRUE,
                suffix |-> << >>])

\* an array of a string, an object without an index, an object with its own
\* index and an object that lacks a key
RESPONSE_MIXED ==
  ResponseText([prefix |-> << >>, items |-> <<ITEM_NOTE, ITEM_X, ITEM_PI, ITEM_NOSUGG>>,
                trailing |-> FALSE, suffix |-> << >>])

\* responses that are no array: nothing, a number, null, one object, prose
OtherResponseTexts ==
  {<< >>, <<"5">>, <<"n","u","l","l">>, ITEM_X.text,
   <<"N","o"," ","i","s","s","u","e","s"," ","f","o","u","n","d",".">>}

\* what the generative service does when it is called
Generations ==
  {[kind |-> "raise_call"], [kind |-> "raise_text"]}
    \cup {[kind |-> "text", text |-> ResponseText(r)] : r \in ClauseResponses}
    \cup {[kind |-> "text", text |-> t] : t \in OtherResponseTexts \cup {RESPONSE_SCENARIO_5, RESPONSE_MIXED}}

InitClause ==
  /\ GEN_KEY \in BOOLEAN
  /\ uploaded_types = {}
  /\ s_chunks = << >>
  /\ t_chunks = << >>
  /\ clause_call \in [clause_text : ClauseTexts, paragraph_index : ParagraphIndexes,
                       search : Searches, generation : Generations]
  /\ resp = NoResponse
  /\ ret = NoCall
  /\ vectordb = "None"
  /\ NoRun

\* check_clause on the clause; `generation` is used only if the service is called
CallCheckClause ==
  /\ ret.fn = "none"
  /\ LET r == check_clause(clause_call.clause_text, clause_call.paragraph_index,
                           clause_call.search, GEN_KEY, clause_call.generation)
     IN  ret' = [fn |-> "check_clause",
                 value |-> r.value,
                 gen_calls |-> r.gen_calls,
                 context |-> r.context,
                 caught |-> r.caught,
                 parsed |-> r.parsed,
                 out |-> r.out]
  /\ UNCHANGED <<uploaded_types, input_vars, env_vars, app_vars>>

NextClause == CallCheckClause

SpecClause == InitClause /\ [][NextClause]_vars

----------------------------------------------------------------------------
(* _simple_heuristic_checks, called on the clauses made of at most         *)
(* MaxClauseChunks pieces, and on the clause texts above                   *)

MaxClauseChunks == 3

\* pieces of clauses: a governing-law opening, two jurisdiction phrases, the name
\* ADGM, a letter (which continues the word before it), and three hedging phrases
ClauseChunks ==
  {<<"g","o","v","e","r","n","e","d"," ","b","y"," ","t","h","e"," ","l","a","w","s"," ","o","f",
    " ">>,
   <<"t","h","e"," ","U","A","E"," ","c","o","u","r","t","s">>,
   <<"U","A","E"," ","f","e","d","e","r","a","l"," ","c","o","u","r","t","s">>,
   <<" ","A","D","G","M"," ">>,
   <<"s">>,
   <<"b","e","s","t"," ","e","f","f","o","r","t","s"," ">>,
   <<"r","e","a","s","o","n","a","b","l","e"," ","e","n","d","e","a","v","o","u","r","s">>,
   <<" ","w","h","e","r","e"," ","p","o","s","s","i","b","l","e">>}

HeuristicClauses ==
  {Join(s) : s \in SeqsUpTo(ClauseChunks, MaxClauseChunks)} \cup ClauseTexts

InitHeuristics ==
  /\ clause_call \in [clause_text : HeuristicClauses, paragraph_index : ParagraphIndexes]
  /\ uploaded_types = {}
  /\ s_chunks = << >>
  /\ t_chunks = << >>
  /\ resp = NoResponse
  /\ ret = NoCall
  /\ GEN_KEY = FALSE
  /\ vectordb = "None"
  /\ NoRun

\* _simple_heuristic_checks on the clause
CallSimpleHeuristicChecks ==
  /\ ret.fn = "none"
  /\ ret' = [fn |-> "_simple_heuristic_checks",
             value |-> _simple_heuristic_checks(clause_call.clause_text,
                                                clause_call.paragraph_index)]
  /\ UNCHANGED <<uploaded_types, input_vars, env_vars, app_vars>>

NextHeuristics == CallSimpleHeuristicChecks

SpecHeuristics == InitHeuristics /\ [][NextHeuristics]_vars
----------------------------------------------------------------------------
(* doc_parser.py *)

\* parse_docx(path): the paragraphs that are not blank, each with its position in
\* the document (from 0) and its stripped text; `u.paras` are the texts of
\* Document(path).paragraphs
parse_docx(u) ==
  LET stripped == [i \in 1..Len(u.paras) |-> strip(u.paras[i])]
      kept == SelectSeq([i \in 1..Len(u.paras) |-> i], LAMBDA i : stripped[i] # << >>)
  IN  [n \in 1..Len(kept) |-> [index |-> kept[n] - 1, text |-> stripped[kept[n]]]]

\* doc_parser.py:32-34: issues_by_idx.setdefault(idx, []) raises TypeError when an
\* issue's paragraph_index cannot be hashed
annotate_docx_raises(issues) ==
  \E n \in 1..Len(issues) : Unhashable(DictGet(issues[n], K_paragraph_index))

\* annotate_docx(input_path, issues, output_path): the document written, as the
\* issues appended to each of its paragraphs, in the order of `issues`
annotate_docx(u, issues) ==
  [i \in 1..Len(u.paras) |->
     SelectSeq(issues,
               LAMBDA it : DictGet(it, K_paragraph_index) = PyNum(IntText(i - 1)))]

----------------------------------------------------------------------------
(* app.py: the Analyze handler *)

\* app.py:55
KEYWORDS ==
  <<<<"j","u","r","i","s","d","i","c","t","i","o","n">>,
    <<"g","o","v","e","r","n">>,
    <<"g","o","v","e","r","n","i","n","g">>,
    <<"c","o","u","r","t">>,
    <<"s","i","g","n","a","t","u","r">>,
    <<"d","i","r","e","c","t","o","r">>,
    <<"m","e","m","b","e","r">>,
    <<"u","b","o">>,
    <<"s","h","a","r","e">>,
    <<"a","g","r","e","e","m","e","n","t">>,
    <<"w","i","t","n","e","s","s">>,
    <<"e","x","e","c","u","t","i","o","n">>>>

\* app.py:48, the first 15 paragraphs' texts joined by newlines
SAMPLE_PARAGRAPHS == 15

sample_txt(paragraphs) ==
  LET n == IF Len(paragraphs) < SAMPLE_PARAGRAPHS THEN Len(paragraphs)
           ELSE SAMPLE_PARAGRAPHS
  IN  JoinWith(<<"\n">>, [i \in 1..n |-> paragraphs[i].text])

\* app.py:53-64, file_issues: the issues check_clause returns for each paragraph
\* that holds a keyword, in paragraph order
RECURSIVE file_issues(_, _, _, _)
file_issues(paragraphs, search, gen_key, generation) ==
  IF paragraphs = << >> THEN << >>
  ELSE LET p == Head(paragraphs)
           issues == IF ContainsAny(lower(p.text), KEYWORDS)
                     THEN check_clause(p.text, p.index, search, gen_key, generation).value
                     ELSE << >>
       IN  issues \o file_issues(Tail(paragraphs), search, gen_key, generation)

\* app.py:83-90
make_final_report(files, types, the_reports) ==
  LET c == report_checklist(types)
  IN  [process |-> c.process,
       documents_uploaded |-> Len(files),
       uploaded_document_types |-> types,
       required_documents |-> Len(c.required),
       missing_documents |-> c.missing,
       issues_found |-> the_reports]

----------------------------------------------------------------------------
(* Uploaded documents *)

\* Articles of Association: a title, a blank paragraph and the Scenario 1 clause
DOC_AOA ==
  [name |-> "aoa.docx", readable |-> TRUE,
   paras |-> <<<<"A","r","t","i","c","l","e","s"," ","o","f"," ","A","s","s","o","c","i","a","t",
               "i","o","n">>,
               <<" ", " ">>,
               CLAUSE_SCENARIO_1>>]

\* a non-disclosure agreement: a title and a clause no rule fires on
DOC_NDA ==
  [name |-> "nda.docx", readable |-> TRUE,
   paras |-> <<<<"N","D","A">>, CLAUSE_PLAIN>>]

\* a Memorandum of Association that holds its title only
DOC_MOA ==
  [name |-> "moa.docx", readable |-> TRUE,
   paras |-> <<<<"M","e","m","o","r","a","n","d","u","m"," ","o","f"," ","A","s","s","o","c","i",
               "a","t","i","o","n">>>>]

\* a file that is no Word document: Document(path) raises
DOC_SCAN == [name |-> "scan.docx", readable |-> FALSE, paras |-> << >>]

Documents == {DOC_AOA, DOC_NDA, DOC_MOA, DOC_SCAN}

\* what the generative service does for the clauses of one document
AppGenerations ==
  {[kind |-> "raise_call"],
   [kind |-> "text", text |-> <<"[">> \o ITEM_X.text \o <<"]">>],
   [kind |-> "text", text |-> <<"[">> \o ITEM_BADPI.text \o <<"]">>]}

\* what the vector store's search does for the clauses of one document
AppSearches == {s \in Searches : s.raises \/ s.docs # << >>}

----------------------------------------------------------------------------
(* The application: files are uploaded, then Analyze is pressed *)

MaxFiles == 2

Init ==
  /\ uploaded_types = {}
  /\ s_chunks = << >>
  /\ t_chunks = << >>
  /\ clause_call = NoClause
  /\ resp = NoResponse
  /\ ret = NoCall
  /\ GEN_KEY \in BOOLEAN
  /\ vectordb \in {"None", "loaded"}
  /\ NoRun

\* app.py:17, a file is added to the uploader
UploadFile(u) ==
  /\ run_pc \in {"idle", "refused"}
  /\ Len(uploaded_files) < MaxFiles
  /\ uploaded_files' = Append(uploaded_files, u)
  /\ run_pc' = "idle"
  /\ UNCHANGED <<uploaded_types, input_vars, ret, env_vars, file_pos, reports,
                 annotated_outputs, final_report, checklist_msg>>

\* app.py:29-32, Analyze with no file or without the vector store: an error is shown
AnalyzeRefused ==
  /\ run_pc = "idle"
  /\ uploaded_files = << >> \/ vectordb = "None"
  /\ run_pc' = "refused"
  /\ UNCHANGED <<uploaded_types, input_vars, ret, env_vars, uploaded_files, file_pos,
                 reports, annotated_outputs, final_report, checklist_msg>>

\* app.py:34-37, Analyze starts a run
AnalyzeStart ==
  /\ run_pc = "idle"
  /\ uploaded_files # << >>
  /\ vectordb # "None"
  /\ reports' = << >>
  /\ uploaded_types' = {}
  /\ annotated_outputs' = << >>
  /\ file_pos' = 1
  /\ run_pc' = "loop"
  /\ UNCHANGED <<input_vars, ret, env_vars, uploaded_files, final_report, checklist_msg>>

\* app.py:46, parse_docx raises: the exception leaves the handler and ends the run
ParseFails ==
  /\ run_pc = "loop"
  /\ file_pos <= Len(uploaded_files)
  /\ ~uploaded_files[file_pos].readable
  /\ run_pc' = "aborted"
  /\ UNCHANGED <<uploaded_types, input_vars, ret, env_vars, uploaded_files, file_pos,
                 reports, annotated_outputs, final_report, checklist_msg>>

\* app.py:46-69, annotate_docx raises after the document's types were added: the
\* exception leaves the handler and ends the run
AnnotateFails(search, generation) ==
  /\ run_pc = "loop"
  /\ file_pos <= Len(uploaded_files)
  /\ uploaded_files[file_pos].readable
  /\ LET Parsed(paragraphs) ==
           /\ annotate_docx_raises(file_issues(paragraphs, search, GEN_KEY, generation))
           /\ uploaded_types' =
                uploaded_types \cup detect_doc_type_from_text(sample_txt(paragraphs))
     IN  Parsed(parse_docx(uploaded_files[file_pos]))
  /\ run_pc' = "aborted"
  /\ UNCHANGED <<input_vars, ret, env_vars, uploaded_files, file_pos, reports,
                 annotated_outputs, final_report, checklist_msg>>

\* app.py:39-76, one pass of the loop over the uploaded files
ProcessDocument(search, generation) ==
  /\ run_pc = "loop"
  /\ file_pos <= Len(uploaded_files)
  /\ uploaded_files[file_pos].readable
  /\ LET Checked(u, detected, issues) ==
           /\ ~annotate_docx_raises(issues)
           /\ uploaded_types' = uploaded_types \cup detected
           /\ annotated_outputs' =
                Append(annotated_outputs,
                       [orig |-> u.name, annotated |-> annotate_docx(u, issues),
                        issues |-> issues])
           /\ reports' = Append(reports, [document |-> u.name,
                                          detected_types |-> detected,
                                          issues_found |-> issues])
         Parsed(u, paragraphs) ==
           Checked(u, detect_doc_type_from_text(sample_txt(paragraphs)),
                   file_issues(paragraphs, search, GEN_KEY, generation))
     IN  Parsed(uploaded_files[file_pos], parse_docx(uploaded_files[file_pos]))
  /\ file_pos' = file_pos + 1
  /\ UNCHANGED <<input_vars, ret, env_vars, uploaded_files, final_report, checklist_msg,
                 run_pc>>

\* app.py:78-104, after the loop: the final report and the checklist message
FinishAnalyze ==
  /\ run_pc = "loop"
  /\ file_pos > Len(uploaded_files)
  /\ final_report' = make_final_report(uploaded_files, uploaded_types, reports)
  /\ checklist_msg' =
       build_user_checklist_message(report_checklist(uploaded_types).process,
                                    uploaded_types)
  /\ run_pc' = "done"
  /\ UNCHANGED <<uploaded_types, input_vars, ret, env_vars, uploaded_files, file_pos,
                 reports, annotated_outputs>>

Next ==
  \/ \E u \in Documents : UploadFile(u)
  \/ AnalyzeRefused
  \/ AnalyzeStart
  \/ ParseFails
  \/ \E search \in AppSearches, generation \in AppGenerations :
        \/ ProcessDocument(search, generation)
        \/ AnnotateFails(search, generation)
  \/ FinishAnalyze

Spec == Init /\ [][Next]_vars

\* C8. Batch failure isolation: a run that has ended has produced the final report,
\* and the report holds an entry for every uploaded document that can be parsed.
C8_BatchFailureIsolation ==
  run_pc \in {"done", "aborted"} =>
     /\ final_report # NoReport
     /\ \A i \in 1..Len(uploaded_files) :
           uploaded_files[i].readable =>
              \E n \in 1..Len(final_report.issues_found) :
                 final_report.issues_found[n].document = uploaded_files[i].name
----------------------------------------------------------------------------
(* Claims about utils.py and the report's checklist *)

\* what C4 says of a missing set computed for `process` from `uploaded`
MissingIsRequiredMinusUploaded(process, uploaded, missing) ==
  /\ \A d \in ChecklistLabels \cup uploaded \cup missing :
        d \in missing <=> (d \in Range(ChecklistGet(process)) /\ d \notin uploaded)
  /\ (missing = {}) <=> (Range(ChecklistGet(process)) \subseteq uploaded)
  /\ (process = "Company Incorporation" /\ uploaded = {"Articles of Association"}) =>
        missing = {"Memorandum of Association", "Board Resolution",
                   "Shareholder Resolution", "Incorporation Application Form",
                   "UBO Declaration Form", "Register of Members and Directors",
                   "Change of Registered Address Notice"}

\* C4. Checklist correctness: a label is missing exactly when the process requires
\* it and it is not uploaded, in checklist_comparison_for_process and in the
\* report's checklist; missing is empty iff every required label is uploaded; and
\* {Articles of Association} under Company Incorporation misses the 7 other labels.
C4_ChecklistCorrectness ==
  /\ ret.fn = "checklist_comparison_for_process" =>
       MissingIsRequiredMinusUploaded(ret.process, ret.uploaded, ret.value.missing)
  /\ ret.fn = "report_checklist" =>
       MissingIsRequiredMinusUploaded(ret.value.process, ret.uploaded, ret.value.missing)

\* Scenario 3 has been computed: 7 labels are missing
C4_Witness ==
  /\ ret.fn = "checklist_comparison_for_process"
  /\ ret.process = "Company Incorporation"
  /\ ret.uploaded = {"Articles of Association"}
  /\ Cardinality(ret.value.missing) = 7

\* C7. Checklist message count: when something is missing, the count the message
\* states as uploaded is the number of the process's required documents that are
\* among the uploaded types (the required count minus the number missing).
C7_MessageCountsRequiredUploaded ==
  (ret.fn = "build_user_checklist_message" /\ ret.value.kind = "missing") =>
     /\ ret.value.uploaded_count =
          Cardinality(Range(ChecklistGet(ret.process)) \cap ret.uploaded)
     /\ ret.value.uploaded_count =
          ret.value.required_count - Cardinality(ret.value.missing_names)

\* C9. Classifier monotonicity: every label detected on s is detected on s + t
\* and on t + s.
C9_ClassifierMonotone ==
  ret.fn = "detect_doc_type_from_text" =>
     /\ ret.on_s \subseteq ret.on_st
     /\ ret.on_s \subseteq ret.on_ts

\* a sample with a label, and added text that brings another label
C9_Witness ==
  /\ ret.fn = "detect_doc_type_from_text"
  /\ ret.on_s # {}
  /\ ret.t # << >>
  /\ ret.on_st # ret.on_s
  /\ ret.on_ts # ret.on_s

\* the processes in the order the detection tests them
ProcessPriority ==
  <<"Company Incorporation", "Employment & HR", "Licensing", "Compliance & Risk",
    "Commercial Agreements">>

\* the labels that indicate a process: the four incorporation indicators, and for
\* the other processes their required documents
Indicators(process) ==
  IF process = "Company Incorporation"
  THEN {"Articles of Association", "Memorandum of Association",
        "Incorporation Application Form", "Register of Members and Directors"}
  ELSE UNION {Range(CHECKLIST[i].required) :
                i \in {n \in 1..Len(CHECKLIST) : CHECKLIST[n].process = process}}

\* C10. Process detection priority: the result is the first process, in the fixed
\* order, whose indicator set meets the uploaded set, and none exactly when no
\* indicator set meets it; the report then defaults to Company Incorporation.
C10_ProcessDetectionPriority ==
  /\ ret.fn = "detect_process_from_uploaded_types" =>
       /\ \A i \in 1..Len(ProcessPriority) :
             ret.value = ProcessPriority[i] <=>
               /\ Indicators(ProcessPriority[i]) \cap ret.uploaded # {}
               /\ \A j \in 1..(i - 1) : Indicators(ProcessPriority[j]) \cap ret.uploaded = {}
       /\ ret.value = "None" <=>
             \A i \in 1..Len(ProcessPriority) :
                Indicators(ProcessPriority[i]) \cap ret.uploaded = {}
  /\ ret.fn = "report_checklist" =>
       ret.value.process =
         IF \E i \in 1..Len(ProcessPriority) :
               Indicators(ProcessPriority[i]) \cap ret.uploaded # {}
         THEN ProcessPriority[CHOOSE i \in 1..Len(ProcessPriority) :
                 /\ Indicators(ProcessPriority[i]) \cap ret.uploaded # {}
                 /\ \A j \in 1..(i - 1) :
                       Indicators(ProcessPriority[j]) \cap ret.uploaded = {}]
         ELSE "Company Incorporation"

\* labels of three processes are uploaded and the earliest process is returned
C10_Witness ==
  /\ ret.fn = "detect_process_from_uploaded_types"
  /\ ret.uploaded = {"NDA", "Compliance Policy", "Offer Letter"}
  /\ ret.value = "Employment & HR"


\* the labels detect_doc_type_from_text returns for some text: a label is in the
\* result exactly when one of its keywords is in the lowered text, so a label
\* with a keyword is returned for the text of that keyword and a label without
\* an entry in DOC_TYPE_KEYWORDS is returned for no text
EmittableLabels ==
  {DOC_TYPE_KEYWORDS[i].doc_name :
     i \in {n \in 1..Len(DOC_TYPE_KEYWORDS) :
              \E k \in 1..Len(DOC_TYPE_KEYWORDS[n].kws) :
                 DOC_TYPE_KEYWORDS[n].doc_name
                   \in detect_doc_type_from_text(DOC_TYPE_KEYWORDS[n].kws[k])}}

\* C15. Completeness is reachable for every process: every label of a required
\* list that checklist_comparison_for_process returns is a label
\* detect_doc_type_from_text returns for some text, so that some set of uploaded
\* documents leaves nothing missing.
C15_CompletenessReachable ==
  ret.fn = "checklist_comparison_for_process" =>
     Range(ret.value.required) \subseteq EmittableLabels
----------------------------------------------------------------------------
(* Claims about checker.py *)

\* the `issue` texts of a list of issues, in order
IssueTexts(issues) == [i \in 1..Len(issues) |-> DictGet(issues[i], K_issue)]

\* what the Heuristic Rule Engine returns for the clause of the call
HeuristicIssues ==
  _simple_heuristic_checks(clause_call.clause_text, clause_call.paragraph_index)

\* C1. Dedup invariant: the list check_clause returns never holds two issues with
\* the same `issue` string, whatever the clause and the model's response.
C1_DedupInvariant ==
  ret.fn = "check_clause" =>
     \A i, j \in 1..Len(ret.value) :
        i # j => IssueTexts(ret.value)[i] # IssueTexts(ret.value)[j]

\* C2. Degraded-mode totality: without the credential check_clause makes no call
\* to the generative service and returns exactly the heuristic issues of the same
\* clause and paragraph index, in the same order, whatever the search did.
C2_DegradedModeTotality ==
  (ret.fn = "check_clause" /\ ~GEN_KEY) =>
     /\ ret.gen_calls = 0
     /\ ret.value = HeuristicIssues

\* without the credential, the search found documents, the service would have
\* returned an issue, and the Scenario 1 clause got its two heuristic issues
C2_Witness ==
  /\ ret.fn = "check_clause"
  /\ ~GEN_KEY
  /\ clause_call.clause_text = CLAUSE_SCENARIO_1
  /\ clause_call.search.docs # << >>
  /\ clause_call.generation = [kind |-> "text", text |-> <<"[">> \o ITEM_X.text \o <<"]">>]
  /\ ret.context # << >>
  /\ Len(ret.value) = 2

\* C3. Failure fallback: when the search raised, or the except clause caught an
\* exception of the generative step, the result is exactly the heuristic issues.
C3_FailureFallback ==
  (ret.fn = "check_clause" /\ (clause_call.search.raises \/ ret.caught # "none")) =>
     ret.value = HeuristicIssues

\* the first <open> of the text up to the nearest <close> after it
NonGreedySpan(text, open, close) ==
  LET opens == {i \in 1..Len(text) : text[i] = open}
  IN  IF opens = {} THEN << >>
      ELSE LET first == CHOOSE i \in opens : \A j \in opens : i <= j
               closes == {i \in (first + 1)..Len(text) : text[i] = close}
           IN  IF closes = {} THEN << >>
               ELSE SubSeq(text, first, CHOOSE i \in closes : \A j \in closes : i <= j)

\* the values of the objects written in the response, as a list
WrittenObjects == PyList([i \in 1..Len(resp.items) |-> resp.items[i].value])

\* C5. Tolerant JSON recovery: for leading prose followed by an array of objects,
\* with or without trailing commas, _safe_parse_json returns the array of exactly
\* the objects written in it, and never None.
C5_TolerantJsonRecovery ==
  (ret.fn = "_safe_parse_json" /\ resp.prefix = PROSE /\ resp.suffix = << >>) =>
     /\ ret.value # PyNone
     /\ ret.value = WrittenObjects

\* C6. Span selection: when the whole text is not valid JSON the candidate is the
\* first "[" up to the nearest "]" after it, and a valid array followed by later
\* text that holds another "]" yields that array.
C6_SpanSelection ==
  ret.fn = "_safe_parse_json" =>
     /\ ~json_loads(strip(ret.text)).ok =>
          ret.candidate = NonGreedySpan(strip(ret.text), "[", "]")
     /\ (resp.prefix = << >> /\ ~resp.trailing /\ resp.suffix = SEE_NOTE
           /\ \A i \in 1..Len(resp.items) : resp.items[i] = ITEM_X) =>
          ret.value = WrittenObjects
----------------------------------------------------------------------------
(* Claims about the heuristic rules *)

\* the phrase occurs in the text
Occurs(text, phrase) ==
  \E i \in 1..(Len(text) - Len(phrase) + 1) : SubSeq(text, i, i + Len(phrase) - 1) = phrase

\* the phrase occurs in the text as whole words: no letter, digit or underscore
\* stands right before or right after the occurrence
OccursAsWords(text, phrase) ==
  \E i \in 1..(Len(text) - Len(phrase) + 1) :
     /\ SubSeq(text, i, i + Len(phrase) - 1) = phrase
     /\ (i = 1 \/ ~IsWordChar(text[i - 1]))
     /\ (i + Len(phrase) > Len(text) \/ ~IsWordChar(text[i + Len(phrase)]))

\* the value of a key of an issue, as text
IssueField(issue, key) == DictGet(issue, key).v

\* the clause of the call, lowercased
LoweredClause == lower(clause_call.clause_text)

\* the disallowed jurisdiction phrases
DisallowedJurisdictions ==
  {<<"u","a","e"," ","f","e","d","e","r","a","l"," ","c","o","u","r","t","s">>,
   <<"f","e","d","e","r","a","l"," ","c","o","u","r","t","s"," ","o","f"," ","t","h","e"," ",
     "u","a","e">>,
   <<"u","a","e"," ","c","o","u","r","t","s">>}

\* the clause mentions "governed by" and does not name ADGM
GoverningLawIncomplete ==
  /\ Occurs(LoweredClause, <<"g","o","v","e","r","n","e","d"," ","b","y">>)
  /\ ~Occurs(LoweredClause, <<"a","d","g","m">>)

\* the result starts with the jurisdiction issue and the governing-law issue,
\* both of severity High; for Scenario 1 they are the whole result
JurisdictionThenGoverningLaw ==
  /\ Len(ret.value) >= 2
  /\ IssueField(ret.value[1], K_issue) = jurisdiction_issue_text
  /\ IssueField(ret.value[1], K_severity) = <<"H","i","g","h">>
  /\ IssueField(ret.value[2], K_issue) = governing_law_issue_text
  /\ IssueField(ret.value[2], K_severity) = <<"H","i","g","h">>
  /\ clause_call.clause_text = CLAUSE_SCENARIO_1 => Len(ret.value) = 2

\* C11 as stated. Jurisdiction and governing-law rules: every clause that contains
\* a disallowed jurisdiction phrase and "governed by" without ADGM gets the
\* jurisdiction issue and then the governing-law issue, both High; for Scenario 1
\* these two are the only issues.
C11_JurisdictionAndGoverningLaw_Original ==
  (/\ ret.fn = "_simple_heuristic_checks"
   /\ \E p \in DisallowedJurisdictions : Occurs(LoweredClause, p)
   /\ GoverningLawIncomplete) => JurisdictionThenGoverningLaw

\* C11, amended. Jurisdiction and governing-law rules: every clause that contains
\* a disallowed jurisdiction phrase as whole words and "governed by" without ADGM
\* gets the jurisdiction issue and then the governing-law issue, both High; for
\* Scenario 1 these two are the only issues.
C11_JurisdictionAndGoverningLaw ==
  (/\ ret.fn = "_simple_heuristic_checks"
   /\ \E p \in DisallowedJurisdictions : OccursAsWords(LoweredClause, p)
   /\ GoverningLawIncomplete) => JurisdictionThenGoverningLaw

\* Scenario 1 has been checked and its result holds two issues
C11_Witness ==
  /\ ret.fn = "_simple_heuristic_checks"
  /\ clause_call.clause_text = CLAUSE_SCENARIO_1
  /\ Len(ret.value) = 2
  /\ IssueField(ret.value[1], K_issue) = jurisdiction_issue_text

\* the hedging phrases, in the order of the list
HedgingPhrases ==
  <<<<"b","e","s","t"," ","e","f","f","o","r","t","s">>,
    <<"r","e","a","s","o","n","a","b","l","e"," ","e","n","d","e","a","v","o","u","r","s">>,
    <<"e","n","d","e","a","v","o","u","r">>,
    <<"a","s"," ","s","o","o","n"," ","a","s"," ","r","e","a","s","o","n","a","b","l","y"," ","p",
    "r","a","c","t","i","c","a","b","l","e">>,
    <<"s","u","b","j","e","c","t"," ","t","o"," ","a","v","a","i","l","a","b","i","l","i","t","y">>,
    <<"t","o"," ","t","h","e"," ","e","x","t","e","n","t"," ","p","o","s","s","i","b","l","e">>,
    <<"w","h","e","r","e"," ","p","o","s","s","i","b","l","e">>>>

\* the positions in the result of the issues of severity Low
LowIssues == {i \in 1..Len(ret.value) : IssueField(ret.value[i], K_severity) = <<"L","o","w">>}

\* the positions in the hedging list of the phrases that occur in the clause
HedgesFound == {n \in 1..Len(HedgingPhrases) : Occurs(LoweredClause, HedgingPhrases[n])}

\* C12. Ambiguous-language rule: the result holds at most one ambiguous-language
\* issue (the only rule of severity Low), one exactly when a hedging phrase occurs
\* in the lowercased clause, and it names the first phrase of the list that
\* occurs; for Scenario 2 it is the whole result and names "reasonable endeavours".
C12_AmbiguousLanguage ==
  ret.fn = "_simple_heuristic_checks" =>
     /\ Cardinality(LowIssues) <= 1
     /\ (LowIssues # {}) <=> (HedgesFound # {})
     /\ \A i \in LowIssues :
          IssueField(ret.value[i], K_issue) =
            <<"A","m","b","i","g","u","o","u","s","/","n","o","n","-","b","i","n","d","i","n","g",
              " ","p","h","r","a","s","e"," ","d","e","t","e","c","t","e","d",":"," ","'">>
              \o HedgingPhrases[CHOOSE n \in HedgesFound : \A m \in HedgesFound : n <= m]
              \o <<"'",".">>
     /\ clause_call.clause_text = CLAUSE_SCENARIO_2 =>
          /\ Len(ret.value) = 1
          /\ LowIssues = {1}
          /\ Occurs(IssueField(ret.value[1], K_issue),
                    <<"'","r","e","a","s","o","n","a","b","l","e"," ","e","n","d","e","a","v",
                      "o","u","r","s","'">>)

\* a clause in which three phrases of the hedging list occur has been checked and
\* got one ambiguous-language issue
C12_Witness ==
  /\ ret.fn = "_simple_heuristic_checks"
  /\ Cardinality(HedgesFound) >= 3
  /\ Cardinality(LowIssues) = 1
----------------------------------------------------------------------------
(* Claims about the filter and the merge of check_clause *)

\* the generative service was called and gave a text
ModelResponded ==
  /\ ret.fn = "check_clause"
  /\ GEN_KEY
  /\ clause_call.generation.kind = "text"

\* the element is a mapping with the keys issue, severity and suggestion
IsCandidate(e) ==
  /\ e.k = "dict"
  /\ DictHas(e, K_issue)
  /\ DictHas(e, K_severity)
  /\ DictHas(e, K_suggestion)

\* the issue is a text that is among the given texts
AmongTexts(o, texts) ==
  /\ DictGet(o, K_issue).k = "str"
  /\ \E t \in texts : t.k = "str" /\ t.v = DictGet(o, K_issue).v

\* the place of an issue in the fixed rule order: jurisdiction, governing law,
\* missing execution block, ambiguous language, UBO
RuleRank(issue) ==
  LET text == DictGet(issue, K_issue).v
  IN  IF text = jurisdiction_issue_text THEN 1
      ELSE IF text = governing_law_issue_text THEN 2
      ELSE IF text = signature_issue_text THEN 3
      ELSE IF text = ubo_issue_text THEN 5
      ELSE 4

\* C13. Merge order and frame: whatever the clause and the model's response, the
\* list check_clause returns is the Heuristic Rule Engine's issues, unchanged and
\* in the rule order, followed by the kept model issues whose issue text is not
\* among the heuristic issue texts, in the order the model returned them.
C13_MergeOrderAndFrame ==
  ModelResponded =>
     LET texts == {DictGet(HeuristicIssues[i], K_issue) : i \in 1..Len(HeuristicIssues)}
     IN  /\ \A i, j \in 1..Len(HeuristicIssues) :
               i < j => RuleRank(HeuristicIssues[i]) < RuleRank(HeuristicIssues[j])
         /\ ret.value = HeuristicIssues
                          \o SelectSeq(ret.out, LAMBDA o : ~AmongTexts(o, texts))

\* C14. Model-object filter: of a parsed response that has elements, the kept
\* elements are, in order, exactly the mappings that hold the keys issue, severity
\* and suggestion; nothing is raised for the others; a kept element that had no
\* paragraph_index gets the clause's, after its other keys, and one that had a
\* paragraph_index is kept as it was.
C14_ModelObjectFilter ==
  (ModelResponded /\ ret.parsed.k \in {"list", "dict", "str"}) =>
     LET candidates == SelectSeq(IterItems(ret.parsed), IsCandidate)
     IN  /\ ret.caught # "for it in parsed"
         /\ Len(ret.out) = Len(candidates)
         /\ \A i \in 1..Len(candidates) :
               IF DictHas(candidates[i], K_paragraph_index)
               THEN ret.out[i] = candidates[i]
               ELSE ret.out[i] =
                      PyDict(Append(candidates[i].v,
                                    <<K_paragraph_index,
                                      PyNum(IntText(clause_call.paragraph_index))>>))

\* the response held a string, an object without an index, an object with the
\* index 7 and an object without suggestion, for a clause of paragraph 3: two
\* elements were kept, the first with the index 3 and the second with its 7
C14_Witness ==
  /\ ModelResponded
  /\ clause_call.generation.text = RESPONSE_MIXED
  /\ clause_call.paragraph_index = 3
  /\ ret.parsed.k = "list"
  /\ Len(ret.parsed.v) = 4
  /\ Len(ret.out) = 2
  /\ DictGet(ret.out[1], K_paragraph_index) = PyNum(<<"3">>)
  /\ DictGet(ret.out[2], K_paragraph_index) = PyNum(<<"7">>)
====
